---- MODULE Spec2Model ----
(***************************************************************************)
(* A model of PyTimer's SQLite backed record store (data.py).             *)
(*                                                                         *)
(* Spec      one DataManager connection used sequentially: add_item,       *)
(*           set_attr, get_attr, rm_item, find_item, top_n_by_attr over a  *)
(*           typed schema, with the encoding of values into SQLite         *)
(*           storage classes and back.                                     *)
(* SpecConc  several independent DataManager connections issuing add_item  *)
(*           against one database file: _execute_write_with_retry over     *)
(*           SQLite's file locks (SHARED / RESERVED / PENDING).            *)
(* SpecTimer TimerManager (timer_manager.py) over the timer table, one     *)
(*           caller: every call runs statement by statement while the      *)
(*           clock advances.                                               *)
(* SpecTimerConc  the same calls issued by several threads, each with a    *)
(*           connection of its own, and the TimerWatcher task of           *)
(*           history.py; the statements of the calls interleave.           *)
(* SpecProxy TimerManagerProxy (timer_manager.py, main.py) in front of the *)
(*           TimerManager: its callbacks, its waits in the thread pool,    *)
(*           and a TimerWatcher (history.py) subscribed to it, whose       *)
(*           tasks run on the thread of its event loop.                    *)
(* SpecProxyLive  SpecProxy with the fairness of the clock and of the      *)
(*           threads.                                                      *)
(***************************************************************************)
EXTENDS Integers, Sequences, FiniteSets, TLC

VARIABLES
    schema,     \* self._column_types: attribute name -> Python type name
    table,      \* the rows of the table: id -> (attribute -> stored value)
    seq,        \* sqlite_sequence: the largest id AUTOINCREMENT ever assigned
    written,    \* history: id -> (attribute -> the Python value last passed in)
    returned,   \* history: the ids add_item returned, in call order
    removed,    \* history: the ids rm_item removed
    last,       \* the last call of the sequential connection and its outcome
    pc,         \* per connection: where its add_item call stands
    lock,       \* per connection: the SQLite file lock it holds
    pending,    \* per connection: rows inserted in its open transaction
    tries,      \* per connection: iterations of the retry loop used up
    attempts,   \* per connection: how often cursor.execute(sql) was called
    failures,   \* per connection: the errors its retry loop caught and retried
    result,     \* per connection: the outcome of add_item
    dbRows,     \* the committed rows of the shared database file
    dbSeq,      \* the committed sqlite_sequence of the shared database file
    opener,     \* per opener: where its DataManager._auto_init call stands
    initlock,   \* the opener holding flock(LOCK_EX) on '<path>.initlock', or 0
    objects,    \* the tables, rows and indexes the database file holds
    retry,      \* per connection: the call of a retry helper and its delay
    timers,     \* TimeManager._timers: timer id -> duration
    counter,    \* TimeManager._counter
    events,     \* time_manager.TimerWatcher._events: timer id -> the Event's flag
    threads,    \* time_manager.TimerWatcher._threads: timer id -> the thread
    called,     \* history: timer id -> how often its callback was invoked
    updated,    \* history: the ids update_timer changed and notify_update not yet
    now,        \* time.time(), in whole seconds
    tpc,        \* per thread: the statement its TimerManager call stands at
    loc,        \* per thread: the call's arguments, local variables and outcome
    calls,      \* the number of TimerManager calls and watcher tasks begun
    px          \* TimerManagerProxy and TimerWatcher: callbacks, waits, tasks

storeVars == <<schema, table, seq, written, returned, removed, last>>
openVars == <<opener, initlock, objects>>
watchVars == <<timers, counter, events, threads, called, updated>>
concVars == <<pc, lock, pending, tries, attempts, failures, result, dbRows, dbSeq,
              openVars, retry, watchVars>>
timerVars == <<now, tpc, loc, calls, px>>
vars == <<storeVars, concVars, timerVars>>

(***************************************************************************)
(* Bounds of the model.                                                    *)
(***************************************************************************)
MaxItems == 2       \* add_item calls of the sequential connection
NOpeners == 3       \* threads and processes constructing a DataManager
MaxWatched == 2     \* timers added to a TimeManager
MaxDuration == 2    \* the longest duration of a TimeManager's timer, in ticks
MaxWatchCalls == 6  \* calls made on a TimeManager and its TimerWatcher
MaxSleeps == 10     \* max_tries of the retry helpers where the delay is followed
MaxTries == 2       \* max_tries of _execute_write_with_retry (80 in the code)
NConns == 2         \* concurrent connections
MaxTimers == 2      \* create_timer calls that insert a timer
MaxTime == 2        \* seconds the clock advances
MaxCalls == 4       \* TimerManager calls and watcher tasks
NThreads == 2       \* threads calling TimerManager concurrently

(***************************************************************************)
(* Python values: [t |-> type name, v |-> payload].                        *)
(*   str    v is the sequence of its characters                            *)
(*   int    v is the integer                                               *)
(*   bool   v is TRUE or FALSE                                             *)
(*   float  v is twice the float (0.5 is 1, 1.5 is 3)                      *)
(*   list   v is the sequence of its elements (ints 0..9)                  *)
(*   dict   v is the sequence of its <<key, value>> pairs in insertion     *)
(*          order; a key is a one-character str or an int 0..9             *)
(***************************************************************************)
PyStr(s) == [t |-> "str", v |-> s]
PyInt(n) == [t |-> "int", v |-> n]
PyBool(b) == [t |-> "bool", v |-> b]
PyFloat(n) == [t |-> "float", v |-> n]
PyList(s) == [t |-> "list", v |-> s]
PyDict(s) == [t |-> "dict", v |-> s]
PyNone == [t |-> "NoneType", v |-> 0]

StrValues == {PyStr(<<"a">>), PyStr(<<"b", "c">>)}
IntValues == {PyInt(1), PyInt(2)}
BoolValues == {PyBool(TRUE), PyBool(FALSE)}
FloatValues == {PyFloat(1), PyFloat(3)}
ListValues == {PyList(<<>>), PyList(<<PyInt(1), PyInt(2)>>)}
DictValues ==
    {PyDict(<<<<PyStr(<<"a">>), PyInt(1)>>>>),
     PyDict(<<<<PyInt(1), PyInt(2)>>>>)}
Values ==
    StrValues \cup IntValues \cup BoolValues \cup FloatValues
        \cup ListValues \cup DictValues \cup {PyNone}

\* isinstance(value, expected): bool is a subclass of int in Python.
IsInstance(value, expected) ==
    \/ value.t = expected
    \/ value.t = "bool" /\ expected = "int"

\* Python's ==: True == 1 and False == 0; dicts compare as mappings, whatever
\* the order of their items.
PyEq(x, y) ==
    IF x.t = "dict" /\ y.t = "dict"
    THEN {x.v[i] : i \in DOMAIN x.v} = {y.v[i] : i \in DOMAIN y.v}
    ELSE IF x.t = "bool" /\ y.t = "int" THEN y.v = (IF x.v THEN 1 ELSE 0)
    ELSE IF x.t = "int" /\ y.t = "bool" THEN x.v = (IF y.v THEN 1 ELSE 0)
    ELSE x = y

(***************************************************************************)
(* json.dumps and json.loads on the values above.  Text is a sequence of   *)
(* one-character strings.                                                  *)
(***************************************************************************)
Digits == <<"0", "1", "2", "3", "4", "5", "6", "7", "8", "9">>
DigitChar(n) == Digits[n + 1]
CharDigit(c) == CHOOSE n \in 0..9 : Digits[n + 1] = c

RECURSIVE JoinItems(_)
JoinItems(items) ==
    IF Len(items) = 0 THEN <<>>
    ELSE IF Len(items) = 1 THEN items[1]
    ELSE items[1] \o <<",", " ">> \o JoinItems(Tail(items))

\* json.dumps of a list element or a dict value
DumpsScalar(x) == <<DigitChar(x.v)>>
\* json.dumps of a dict key: keys that are not str are converted to str
DumpsKey(k) == IF k.t = "str" THEN <<"\"">> \o k.v \o <<"\"">>
               ELSE <<"\"", DigitChar(k.v), "\"">>
DumpsPair(p) == DumpsKey(p[1]) \o <<":", " ">> \o DumpsScalar(p[2])

JsonDumps(value) ==
    IF value.t = "list"
    THEN <<"[">> \o JoinItems([i \in DOMAIN value.v |-> DumpsScalar(value.v[i])]) \o <<"]">>
    ELSE <<"{">> \o JoinItems([i \in DOMAIN value.v |-> DumpsPair(value.v[i])]) \o <<"}">>

\* the text between the outer brackets
Inner(text) == SubSeq(text, 2, Len(text) - 1)

\* "1, 2": one character per element, ", " between elements
ParseElements(body) ==
    [i \in 1..((Len(body) + 2) \div 3) |-> PyInt(CharDigit(body[3 * i - 2]))]

\* "\"a\": 1, \"b\": 2": six characters per item, ", " between items;
\* an object's keys are always strings
ParsePairs(body) ==
    [i \in 1..((Len(body) + 2) \div 8) |->
        <<PyStr(<<body[8 * i - 6]>>), PyInt(CharDigit(body[8 * i - 2]))>>]

JsonLoads(text) ==
    IF text[1] = "[" THEN PyList(ParseElements(Inner(text)))
    ELSE PyDict(ParsePairs(Inner(text)))

(***************************************************************************)
(* SQLite storage classes: [t |-> class, v |-> payload], and the sqlite3   *)
(* module's conversion of statement parameters and result columns.         *)
(***************************************************************************)
SqlNull == [t |-> "NULL", v |-> 0]

\* parameter binding: a bool is bound as the integer 1 or 0
Bind(value) ==
    CASE value.t = "bool" -> [t |-> "INTEGER", v |-> IF value.v THEN 1 ELSE 0]
      [] value.t = "int" -> [t |-> "INTEGER", v |-> value.v]
      [] value.t = "float" -> [t |-> "REAL", v |-> value.v]
      [] value.t = "str" -> [t |-> "TEXT", v |-> value.v]
      [] OTHER -> SqlNull

\* a result column as the Python value the cursor returns
Fetch(cell) ==
    CASE cell.t = "INTEGER" -> PyInt(cell.v)
      [] cell.t = "REAL" -> PyFloat(cell.v)
      [] cell.t = "TEXT" -> PyStr(cell.v)
      [] OTHER -> PyNone

(***************************************************************************)
(* The schema and the helpers of DataManagerInterface.                     *)
(***************************************************************************)
Schemas ==
    {[name |-> "str", count |-> "int"],
     [active |-> "bool", rating |-> "float"],
     [tags |-> "list", flags |-> "dict"]}
UnknownAttr == "ghost"    \* a name no schema declares
AttrNames == DOMAIN schema \cup {UnknownAttr}

Ok(ret) == [err |-> "ok", ret |-> ret]
Raise(err) == [err |-> err, ret |-> PyNone]

\* _validate_attr: ValueError("Unknown attribute") or the declared type
ValidateAttr(attr) ==
    IF attr \notin DOMAIN schema THEN Raise("UnknownAttribute")
    ELSE Ok(schema[attr])

\* _encode_value: the value as it is handed to the statement
EncodeValue(attr, value) ==
    LET expected == ValidateAttr(attr) IN
    IF expected.err # "ok" THEN expected
    ELSE IF ~IsInstance(value, expected.ret) THEN Raise("TypeMismatch")
    ELSE IF expected.ret = "bool" THEN Ok(PyInt(IF value.v THEN 1 ELSE 0))
    ELSE IF expected.ret \in {"list", "dict"} THEN Ok(PyStr(JsonDumps(value)))
    ELSE Ok(value)

\* bool(value) of a fetched column
Truthy(value) == IF value.t = "int" THEN value.v # 0 ELSE FALSE

\* _decode_value: the fetched column as the declared type
DecodeValueRaw(attr, value) ==
    LET expected == ValidateAttr(attr) IN
    IF expected.err # "ok" THEN expected
    ELSE Ok(value)
DecodeValue(attr, value) ==
    LET expected == ValidateAttr(attr) IN
    IF expected.err # "ok" THEN expected
    ELSE IF expected.ret = "bool" THEN Ok(PyBool(Truthy(value)))
    ELSE IF expected.ret \in {"list", "dict"}
         THEN IF value = PyNone THEN Ok(PyNone) ELSE Ok(JsonLoads(value.v))
    ELSE Ok(value)

Max(a, b) == IF a >= b THEN a ELSE b
Min(a, b) == IF a <= b THEN a ELSE b
SetMax(S) == IF S = {} THEN 0 ELSE CHOOSE x \in S : \A y \in S : y <= x

\* id INTEGER PRIMARY KEY AUTOINCREMENT: one more than the largest id the
\* table ever held, which sqlite_sequence keeps
NextRowidNoAutoincrement(tbl, sq) == SetMax(DOMAIN tbl) + 1
NextRowid(tbl, sq) == Max(sq, SetMax(DOMAIN tbl)) + 1

\* the ids of a set in rowid order
RECURSIVE Ascending(_)
Ascending(S) ==
    IF S = {} THEN <<>>
    ELSE LET m == CHOOSE x \in S : \A y \in S : x <= y
         IN <<m>> \o Ascending(S \ {m})

Range(s) == {s[i] : i \in DOMAIN s}

(***************************************************************************)
(* The public API.  Each operator gives the outcome of the call made in    *)
(* the state (tbl, sq): the error raised or "ok", the value returned, and  *)
(* the table and sqlite_sequence it leaves.                                *)
(***************************************************************************)
Outcome(err, ret, tbl, sq) == [err |-> err, ret |-> ret, tbl |-> tbl, sq |-> sq]

GetAttr(tbl, sq, id, attr) ==
    IF ValidateAttr(attr).err # "ok"
    THEN Outcome("UnknownAttribute", PyNone, tbl, sq)
    ELSE IF id \notin DOMAIN tbl
    THEN Outcome("NotFound", PyNone, tbl, sq)
    ELSE Outcome("ok", DecodeValue(attr, Fetch(tbl[id][attr])).ret, tbl, sq)

SetAttrBlind(tbl, sq, id, attr, value) ==
    LET encoded == EncodeValue(attr, value) IN
    IF encoded.err # "ok" THEN Outcome(encoded.err, PyNone, tbl, sq)
    ELSE IF id \notin DOMAIN tbl THEN Outcome("ok", PyNone, tbl, sq)
    ELSE Outcome("ok", PyNone,
                 [tbl EXCEPT ![id] = [@ EXCEPT ![attr] = Bind(encoded.ret)]], sq)
SetAttr(tbl, sq, id, attr, value) ==
    LET encoded == EncodeValue(attr, value) IN
    IF encoded.err # "ok" THEN Outcome(encoded.err, PyNone, tbl, sq)
    ELSE IF id \notin DOMAIN tbl THEN Outcome("NotFound", PyNone, tbl, sq)
    ELSE Outcome("ok", PyNone,
                 [tbl EXCEPT ![id] = [@ EXCEPT ![attr] = Bind(encoded.ret)]], sq)

\* attr_dict is a function from its keys to values
AddItemLenient(tbl, sq, attr_dict) ==
    IF ~(DOMAIN schema \subseteq DOMAIN attr_dict)
    THEN Outcome("SchemaMismatch", PyNone, tbl, sq)
    ELSE IF \E attr \in DOMAIN schema : EncodeValue(attr, attr_dict[attr]).err # "ok"
    THEN Outcome("TypeMismatch", PyNone, tbl, sq)
    ELSE LET id == NextRowid(tbl, sq)
             row == [attr \in DOMAIN schema |->
                        Bind(EncodeValue(attr, attr_dict[attr]).ret)]
         IN Outcome("ok", id, [i \in DOMAIN tbl \cup {id} |->
                                  IF i = id THEN row ELSE tbl[i]], id)
AddItem(tbl, sq, attr_dict) ==
    IF DOMAIN attr_dict # DOMAIN schema
    THEN Outcome("SchemaMismatch", PyNone, tbl, sq)
    ELSE IF \E attr \in DOMAIN schema : EncodeValue(attr, attr_dict[attr]).err # "ok"
    THEN Outcome("TypeMismatch", PyNone, tbl, sq)
    ELSE LET id == NextRowid(tbl, sq)
             row == [attr \in DOMAIN schema |->
                        Bind(EncodeValue(attr, attr_dict[attr]).ret)]
         IN Outcome("ok", id, [i \in DOMAIN tbl \cup {id} |->
                                  IF i = id THEN row ELSE tbl[i]], id)

RmItemKeep(tbl, sq, id) ==
    IF id \notin DOMAIN tbl THEN Outcome("NotFound", PyNone, tbl, sq)
    ELSE Outcome("ok", PyNone, tbl, sq)
RmItem(tbl, sq, id) ==
    IF id \notin DOMAIN tbl THEN Outcome("NotFound", PyNone, tbl, sq)
    ELSE Outcome("ok", PyNone, [i \in DOMAIN tbl \ {id} |-> tbl[i]], sq)

(***************************************************************************)
(* Queries.  A filter (required_attributes) is the sequence of its         *)
(* <<attribute, value>> items in the order the dict yields them; None and  *)
(* the empty dict are both the empty sequence, as both take the same       *)
(* branch of the code.                                                     *)
(***************************************************************************)
\* the first error the loop over the filter's items raises, or "ok"
RECURSIVE FilterError(_)
FilterError(items) ==
    IF Len(items) = 0 THEN "ok"
    ELSE LET encoded == EncodeValue(items[1][1], items[1][2])
         IN IF encoded.err # "ok" THEN encoded.err ELSE FilterError(Tail(items))

\* column = ? : never true of NULL
SqlEquals(cell, param) == cell.t # "NULL" /\ param.t # "NULL" /\ cell = param

\* WHERE a = ? OR b = ?
RowMatchesAny(row, items) ==
    \E i \in DOMAIN items :
        SqlEquals(row[items[i][1]], Bind(EncodeValue(items[i][1], items[i][2]).ret))
\* WHERE a = ? AND b = ?
RowMatches(row, items) ==
    \A i \in DOMAIN items :
        SqlEquals(row[items[i][1]], Bind(EncodeValue(items[i][1], items[i][2]).ret))

FindItem(tbl, sq, items) ==
    IF Len(items) = 0 THEN Outcome("ok", Ascending(DOMAIN tbl), tbl, sq)
    ELSE IF FilterError(items) # "ok" THEN Outcome(FilterError(items), <<>>, tbl, sq)
    ELSE Outcome("ok", Ascending({id \in DOMAIN tbl : RowMatches(tbl[id], items)}),
                 tbl, sq)

\* ORDER BY attr for INTEGER and REAL columns, ORDER BY LENGTH(attr) otherwise
SortKey(cell) == IF cell.t \in {"INTEGER", "REAL"} THEN cell.v ELSE Len(cell.v)

\* the orders ORDER BY may produce: rows of equal key come in any order
Sorted(order, tbl, attr, largest) ==
    \A i, j \in DOMAIN order :
        i < j => IF largest
                 THEN SortKey(tbl[order[i]][attr]) >= SortKey(tbl[order[j]][attr])
                 ELSE SortKey(tbl[order[i]][attr]) <= SortKey(tbl[order[j]][attr])
OrderingsAscendingOnly(ids, tbl, attr, largest) ==
    {order \in [1..Cardinality(ids) -> ids] :
        Range(order) = ids /\ Sorted(order, tbl, attr, FALSE)}
Orderings(ids, tbl, attr, largest) ==
    {order \in [1..Cardinality(ids) -> ids] :
        Range(order) = ids /\ Sorted(order, tbl, attr, largest)}

\* LIMIT n: a negative n is no limit
Limit(order, n) == IF n < 0 THEN order ELSE SubSeq(order, 1, Min(n, Len(order)))

\* top_n_by_attr: the error raised, or "ok" with every tuple the query may give
TopNByAttrAnyType(tbl, sq, attr, n, largest, items) ==
    LET expected == ValidateAttr(attr) IN
    IF expected.err # "ok" THEN Outcome(expected.err, {}, tbl, sq)
    ELSE IF FilterError(items) # "ok" THEN Outcome(FilterError(items), {}, tbl, sq)
    ELSE LET ids == {id \in DOMAIN tbl : RowMatches(tbl[id], items)}
         IN Outcome("ok",
                    {Limit(order, n) : order \in Orderings(ids, tbl, attr, largest)},
                    tbl, sq)
TopNByAttr(tbl, sq, attr, n, largest, items) ==
    LET expected == ValidateAttr(attr) IN
    IF expected.err # "ok" THEN Outcome(expected.err, {}, tbl, sq)
    ELSE IF expected.ret \notin {"int", "float", "str", "list", "dict"}
    THEN Outcome("UnsupportedSortType", {}, tbl, sq)
    ELSE IF FilterError(items) # "ok" THEN Outcome(FilterError(items), {}, tbl, sq)
    ELSE LET ids == {id \in DOMAIN tbl : RowMatches(tbl[id], items)}
         IN Outcome("ok",
                    {Limit(order, n) : order \in Orderings(ids, tbl, attr, largest)},
                    tbl, sq)

(***************************************************************************)
(* The arguments the calls are made with.                                  *)
(***************************************************************************)
Ids == 1..(MaxItems + 1)          \* one more than add_item can have assigned
Limits == -1..(MaxItems + 1)      \* n of top_n_by_attr

\* the values of the type an attribute declares
ValuesOf(attr) ==
    IF attr \in DOMAIN schema THEN {v \in Values : v.t = schema[attr]}
    ELSE {PyInt(2)}
SomeValueOf(attr) == CHOOSE v \in ValuesOf(attr) : TRUE

\* the values the calls pass for an attribute: those of its declared type, a
\* bool and an int
Offered(attr) == ValuesOf(attr) \cup {PyBool(TRUE), PyInt(2)}

\* add_item: records with exactly the schema's keys, and one record for every
\* other key set
FullRecords == {r \in [DOMAIN schema -> Values] : \A attr \in DOMAIN r : r[attr] \in Offered(attr)}
OtherKeySets == (SUBSET AttrNames) \ {DOMAIN schema}
OtherRecords == {[attr \in keys |-> SomeValueOf(attr)] : keys \in OtherKeySets}
Records == FullRecords \cup OtherRecords

\* every pair of distinct attribute names, the unknown one included
AttrPairs == {b \in AttrNames \X AttrNames : b[1] # b[2]}

\* required_attributes: no filter, one item, or two items of the declared types
OneItemFilters ==
    UNION {{<<(<<attr, v>>)>> : v \in ValuesOf(attr)} : attr \in AttrNames}
OfferedFilters ==
    UNION {{<<(<<attr, v>>)>> : v \in Offered(attr)} : attr \in AttrNames}
TwoItemFilters ==
    UNION {{<<(<<a[1], v1>>), (<<a[2], v2>>)>> :
                v1 \in ValuesOf(a[1]), v2 \in ValuesOf(a[2])} : a \in AttrPairs}
Filters == {<<>>} \cup OfferedFilters \cup TwoItemFilters
TopFilters == {<<>>} \cup OneItemFilters

\* top_n_by_attr(attr, n, largest, required_attributes): every sort attribute,
\* limit and direction with every filter of TopFilters, and a filter value of
\* another type than declared
TopCalls ==
    (AttrNames \X Limits \X BOOLEAN \X TopFilters)
    \cup {<<attr, 1, TRUE, <<(<<attr, PyNone>>)>> >> : attr \in DOMAIN schema}

(***************************************************************************)
(* Spec: the calls of one connection, one after the other.                 *)
(***************************************************************************)
Call(op, id, out) == [op |-> op, id |-> id, err |-> out.err, ret |-> out.ret]

StoreInit ==
    /\ schema \in Schemas
    /\ table = <<>>
    /\ seq = 0
    /\ written = <<>>
    /\ returned = <<>>
    /\ removed = {}
    /\ last = [op |-> "init", id |-> 0, err |-> "ok", ret |-> PyNone]

AddItemOp ==
    \E attr_dict \in Records :
        \E out \in {AddItem(table, seq, attr_dict)} :
        /\ out.err = "ok" => seq < MaxItems
        /\ table' = out.tbl
        /\ seq' = out.sq
        /\ last' = Call("add_item", 0, out)
        /\ IF out.err = "ok"
           THEN /\ written' = [i \in DOMAIN written \cup {out.ret} |->
                                  IF i = out.ret THEN attr_dict ELSE written[i]]
                /\ returned' = Append(returned, out.ret)
           ELSE UNCHANGED <<written, returned>>
        /\ UNCHANGED <<schema, removed>>
        /\ UNCHANGED <<concVars, timerVars>>

SetAttrOp ==
    \E id \in Ids, attr \in AttrNames : \E value \in Offered(attr) :
        \E out \in {SetAttr(table, seq, id, attr, value)} :
        /\ table' = out.tbl
        /\ seq' = out.sq
        /\ last' = Call("set_attr", id, out)
        /\ IF out.err = "ok"
           THEN written' = [written EXCEPT ![id] = [@ EXCEPT ![attr] = value]]
           ELSE UNCHANGED written
        /\ UNCHANGED <<schema, returned, removed>>
        /\ UNCHANGED <<concVars, timerVars>>

GetAttrOp ==
    \E id \in Ids, attr \in AttrNames :
        \E out \in {GetAttr(table, seq, id, attr)} :
        /\ table' = out.tbl
        /\ seq' = out.sq
        /\ last' = Call("get_attr", id, out)
        /\ UNCHANGED <<schema, written, returned, removed>>
        /\ UNCHANGED <<concVars, timerVars>>

RmItemOp ==
    \E id \in Ids :
        \E out \in {RmItem(table, seq, id)} :
        /\ table' = out.tbl
        /\ seq' = out.sq
        /\ last' = Call("rm_item", id, out)
        /\ IF out.err = "ok"
           THEN /\ written' = [i \in DOMAIN written \ {id} |-> written[i]]
                /\ removed' = removed \cup {id}
           ELSE UNCHANGED <<written, removed>>
        /\ UNCHANGED <<schema, returned>>
        /\ UNCHANGED <<concVars, timerVars>>

FindItemOp ==
    \E items \in Filters :
        \E out \in {FindItem(table, seq, items)} :
        /\ table' = out.tbl
        /\ seq' = out.sq
        /\ last' = Call("find_item", 0, out)
        /\ UNCHANGED <<schema, written, returned, removed>>
        /\ UNCHANGED <<concVars, timerVars>>

TopNByAttrOp ==
    \E call \in TopCalls :
        \E out \in {TopNByAttr(table, seq, call[1], call[2], call[3], call[4])} :
        /\ table' = out.tbl
        /\ seq' = out.sq
        /\ IF out.err = "ok"
           THEN \E ret \in out.ret : last' = Call("top_n_by_attr", 0, [out EXCEPT !.ret = ret])
           ELSE last' = Call("top_n_by_attr", 0, [out EXCEPT !.ret = <<>>])
        /\ UNCHANGED <<schema, written, returned, removed>>
        /\ UNCHANGED <<concVars, timerVars>>

(***************************************************************************)
(* SpecConc: concurrent add_item calls (below); idle under Spec.           *)
(***************************************************************************)
Conns == 1..NConns

Openers == 1..NOpeners
\* TimeManager() and TimerWatcher(manager)
WatchInit ==
    /\ timers = <<>>
    /\ counter = 0
    /\ events = <<>>
    /\ threads = <<>>
    /\ called = <<>>
    /\ updated = {}
\* no retry helper is running; a delay is the fraction n/d of a second
NoRetry == [helper |-> "none", st |-> "idle", tries |-> 0,
            delay |-> [n |-> 0, d |-> 1], slept |-> [n |-> 0, d |-> 1]]
\* no DataManager is being constructed
NoOpener == [pc |-> "idle", path |-> "none", lockfd |-> FALSE, err |-> "ok"]
OpenInit ==
    /\ opener = [c \in Openers |-> NoOpener]
    /\ initlock = 0
    /\ objects = {}

ConcInit ==
    /\ pc = [c \in Conns |-> "idle"]
    /\ lock = [c \in Conns |-> "NONE"]
    /\ pending = [c \in Conns |-> <<>>]
    /\ tries = [c \in Conns |-> 0]
    /\ attempts = [c \in Conns |-> 0]
    /\ failures = [c \in Conns |-> {}]
    /\ result = [c \in Conns |-> [err |-> "none", ret |-> 0]]
    /\ dbRows = {}
    /\ dbSeq = 0
    /\ OpenInit
    /\ retry = [c \in Conns |-> NoRetry]
    /\ WatchInit

\* time.time() when the program starts; the threads of SpecTimer and
\* SpecTimerConc, idle under the other specifications
Epoch == 10
Threads == 1..NThreads
NoCall ==
    [op |-> "none", id |-> 0, arg |-> PyNone, pre |-> <<>>, err |-> "none",
     ret |-> PyNone, name |-> PyNone, status |-> PyNone, duration |-> PyNone,
     start_time |-> PyNone, end_time |-> PyNone, wake |-> 0]
\* no proxy is constructed under the specifications of the bare TimerManager
NoProxy == [kind |-> "none"]
TimerIdle ==
    /\ now = Epoch
    /\ tpc = [t \in Threads |-> "idle"]
    /\ loc = [t \in Threads |-> NoCall]
    /\ calls = 0
    /\ px = NoProxy

Init == StoreInit /\ ConcInit /\ TimerIdle

\* Spec: writes, get_attr and find_item
Next ==
    \/ AddItemOp
    \/ SetAttrOp
    \/ GetAttrOp
    \/ RmItemOp
    \/ FindItemOp
Spec == Init /\ [][Next]_vars

\* SpecTopN: the tables add_item and rm_item build, queried by top_n_by_attr
NextTopN ==
    \/ AddItemOp
    \/ RmItemOp
    \/ TopNByAttrOp
SpecTopN == Init /\ [][NextTopN]_vars

(***************************************************************************)
(* SpecConc: every connection calls add_item once.  The call runs          *)
(* _execute_write_with_retry: up to max_tries attempts inside the loop and *)
(* one last attempt after it; an attempt is cursor.execute(INSERT) and     *)
(* commit().  SQLite (rollback journal, as _auto_init sets it) takes       *)
(* SHARED and then RESERVED for the INSERT and needs every other           *)
(* connection's SHARED lock gone to commit; a wait for a lock that         *)
(* outlasts busy_timeout raises "database is locked".                      *)
(***************************************************************************)
Locked == "database is locked"
\* what the storage engine can raise from execute apart from lock contention
Faults == {"disk i/o error", "attempt to write a readonly database"}

\* the messages _execute_write_with_retry retries on
IsTransientAny(msg) == TRUE
IsTransientWrite(msg) ==
    msg \in {"database is locked", "database is busy", "disk i/o error"}

Others(c) == Conns \ {c}

\* except sqlite3.OperationalError inside the loop: sleep and continue while
\* the loop has iterations left and the error is transient; otherwise (not
\* transient, or raised by the last attempt after the loop) the error
\* propagates to the caller of add_item
OnError(c, msg) ==
    IF tries[c] < MaxTries /\ IsTransientWrite(msg)
    THEN /\ tries' = [tries EXCEPT ![c] = @ + 1]
         /\ failures' = [failures EXCEPT ![c] = @ \cup {msg}]
         /\ pc' = [pc EXCEPT ![c] = "try"]
         /\ UNCHANGED result
    ELSE /\ result' = [result EXCEPT ![c] = [err |-> msg, ret |-> 0]]
         /\ pc' = [pc EXCEPT ![c] = "done"]
         /\ UNCHANGED <<tries, failures>>

\* add_item: the record is valid; _execute_write_with_retry is entered
CallAddItem(c) ==
    /\ pc[c] = "idle"
    /\ pc' = [pc EXCEPT ![c] = "try"]
    /\ UNCHANGED <<lock, pending, tries, attempts, failures, result, dbRows, dbSeq>>

\* one attempt begins: self._cursor.execute(sql, params)
Attempt(c) ==
    /\ pc[c] = "try"
    /\ attempts' = [attempts EXCEPT ![c] = @ + 1]
    /\ pc' = [pc EXCEPT ![c] = "exec"]
    /\ UNCHANGED <<lock, pending, tries, failures, result, dbRows, dbSeq>>

\* the id the INSERT assigns: AUTOINCREMENT over the committed rows and the
\* rows of the connection's own transaction
InsertId(c) ==
    NextRowid([i \in {r.id : r \in dbRows} \cup Range(pending[c]) |-> TRUE],
              Max(dbSeq, SetMax(Range(pending[c]))))

\* the INSERT runs inside the transaction a failed commit left open
ExecInTransaction(c) ==
    /\ pc[c] = "exec"
    /\ lock[c] \in {"RESERVED", "PENDING"}
    /\ pending' = [pending EXCEPT ![c] = Append(@, InsertId(c))]
    /\ pc' = [pc EXCEPT ![c] = "commit"]
    /\ UNCHANGED <<lock, tries, attempts, failures, result, dbRows, dbSeq>>

\* the INSERT takes the SHARED lock
ExecShared(c) ==
    /\ pc[c] = "exec"
    /\ lock[c] = "NONE"
    /\ \A o \in Others(c) : lock[o] # "PENDING"
    /\ lock' = [lock EXCEPT ![c] = "SHARED"]
    /\ pc' = [pc EXCEPT ![c] = "reserve"]
    /\ UNCHANGED <<pending, tries, attempts, failures, result, dbRows, dbSeq>>

\* no SHARED lock within busy_timeout: a committer holds PENDING
ExecSharedTimeout(c) ==
    /\ pc[c] = "exec"
    /\ lock[c] = "NONE"
    /\ \E o \in Others(c) : lock[o] = "PENDING"
    /\ OnError(c, Locked)
    /\ UNCHANGED <<lock, pending, attempts, dbRows, dbSeq>>

\* the storage engine fails the statement for another reason
ExecFault(c) ==
    /\ pc[c] = "exec"
    /\ lock[c] = "NONE"
    /\ \E msg \in Faults : OnError(c, msg)
    /\ UNCHANGED <<lock, pending, attempts, dbRows, dbSeq>>

\* SHARED to RESERVED, and the row is inserted in the transaction
ExecReserve(c) ==
    /\ pc[c] = "reserve"
    /\ \A o \in Others(c) : lock[o] \notin {"RESERVED", "PENDING"}
    /\ lock' = [lock EXCEPT ![c] = "RESERVED"]
    /\ pending' = [pending EXCEPT ![c] = Append(@, InsertId(c))]
    /\ pc' = [pc EXCEPT ![c] = "commit"]
    /\ UNCHANGED <<tries, attempts, failures, result, dbRows, dbSeq>>

\* another connection holds RESERVED: the SHARED lock is dropped and the busy
\* handler tries again
ReserveRetry(c) ==
    /\ pc[c] = "reserve"
    /\ \E o \in Others(c) : lock[o] \in {"RESERVED", "PENDING"}
    /\ lock' = [lock EXCEPT ![c] = "NONE"]
    /\ pc' = [pc EXCEPT ![c] = "exec"]
    /\ UNCHANGED <<pending, tries, attempts, failures, result, dbRows, dbSeq>>

\* ... or busy_timeout is over: the statement fails
ReserveTimeout(c) ==
    /\ pc[c] = "reserve"
    /\ \E o \in Others(c) : lock[o] \in {"RESERVED", "PENDING"}
    /\ lock' = [lock EXCEPT ![c] = "NONE"]
    /\ OnError(c, Locked)
    /\ UNCHANGED <<pending, attempts, dbRows, dbSeq>>

\* self._conn.commit() with no reader in the way: the transaction's rows are
\* written to the file; add_item returns cur.lastrowid
Commit(c) ==
    /\ pc[c] = "commit"
    /\ \A o \in Others(c) : lock[o] # "SHARED"
    /\ dbRows' = dbRows \cup {[id |-> id, by |-> c] : id \in Range(pending[c])}
    /\ dbSeq' = SetMax(Range(pending[c]))
    /\ lock' = [lock EXCEPT ![c] = "NONE"]
    /\ pending' = [pending EXCEPT ![c] = <<>>]
    /\ result' = [result EXCEPT ![c] = [err |-> "ok", ret |-> pending[c][Len(pending[c])]]]
    /\ pc' = [pc EXCEPT ![c] = "done"]
    /\ UNCHANGED <<tries, attempts, failures>>

\* commit() while another connection holds SHARED: the committer takes
\* PENDING, waits, and busy_timeout is over; the transaction stays open
CommitTimeout(c) ==
    /\ pc[c] = "commit"
    /\ \E o \in Others(c) : lock[o] = "SHARED"
    /\ lock' = [lock EXCEPT ![c] = "PENDING"]
    /\ OnError(c, Locked)
    /\ UNCHANGED <<pending, attempts, dbRows, dbSeq>>

InitConc ==
    /\ StoreInit
    /\ schema = [name |-> "str", count |-> "int"]
    /\ ConcInit
    /\ TimerIdle

NextConc ==
    \/ \E c \in Conns : CallAddItem(c) /\ UNCHANGED <<storeVars, timerVars, openVars, retry, watchVars>>
    \/ \E c \in Conns : Attempt(c) /\ UNCHANGED <<storeVars, timerVars, openVars, retry, watchVars>>
    \/ \E c \in Conns : ExecInTransaction(c) /\ UNCHANGED <<storeVars, timerVars, openVars, retry, watchVars>>
    \/ \E c \in Conns : ExecShared(c) /\ UNCHANGED <<storeVars, timerVars, openVars, retry, watchVars>>
    \/ \E c \in Conns : ExecSharedTimeout(c) /\ UNCHANGED <<storeVars, timerVars, openVars, retry, watchVars>>
    \/ \E c \in Conns : ExecFault(c) /\ UNCHANGED <<storeVars, timerVars, openVars, retry, watchVars>>
    \/ \E c \in Conns : ExecReserve(c) /\ UNCHANGED <<storeVars, timerVars, openVars, retry, watchVars>>
    \/ \E c \in Conns : ReserveRetry(c) /\ UNCHANGED <<storeVars, timerVars, openVars, retry, watchVars>>
    \/ \E c \in Conns : ReserveTimeout(c) /\ UNCHANGED <<storeVars, timerVars, openVars, retry, watchVars>>
    \/ \E c \in Conns : Commit(c) /\ UNCHANGED <<storeVars, timerVars, openVars, retry, watchVars>>
    \/ \E c \in Conns : CommitTimeout(c) /\ UNCHANGED <<storeVars, timerVars, openVars, retry, watchVars>>
SpecConc == InitConc /\ [][NextConc]_vars

(***************************************************************************)
(* DataManager._auto_init: threads and processes that construct a          *)
(* DataManager on the same database file, or on an in-memory database, on  *)
(* a platform where fcntl can be imported.                                 *)
(*                                                                         *)
(* opener[c].pc      the statement of _auto_init the opener stands at      *)
(* opener[c].path    "memory" for ':memory:' and 'file:...mode=memory',    *)
(*                   "file" for a path of the file system                  *)
(* opener[c].lockfd  the descriptor of the '.initlock' file is open        *)
(* opener[c].err     the exception that is propagating, or "ok"            *)
(***************************************************************************)
Paths == {"memory", "file"}
OpenSchemas == {[name |-> "str", count |-> "int"],
                [status |-> "str", end_time |-> "float"],
                [name |-> "str", when |-> "datetime"]}
SupportedTypes == {"str", "int", "bool", "float", "list", "dict"}

\* the statements of the try block, in order
InitSteps == <<"journal_mode", "create_table", "create_meta", "insert_meta",
               "create_index", "update_meta", "finally">>
InsideTry == {InitSteps[i] : i \in 1..(Len(InitSteps) - 1)}
StepAfter(stmt) ==
    InitSteps[(CHOOSE i \in 1..Len(InitSteps) : InitSteps[i] = stmt) + 1]
\* what a statement of the try block leaves in the database file
Creates(stmt) ==
    CASE stmt = "create_table" -> {"items"}
      [] stmt = "create_meta" -> {"dm_meta"}
      [] stmt = "insert_meta" -> {"dm_meta[1]"}
      [] stmt = "create_index" -> {"idx_items_status_end"}
      [] OTHER -> {}

Opening(c, stmt) == opener[c].pc = stmt

\* DataManager(...) up to the choice between the two branches of _auto_init
AutoInit(c, path) ==
    /\ Opening(c, "idle")
    /\ opener' = [opener EXCEPT ![c] =
           [@ EXCEPT !.path = path,
                     !.pc = IF \E a \in DOMAIN schema : schema[a] \notin SupportedTypes
                            THEN "raised"
                            ELSE IF path = "memory" THEN "memory_create" ELSE "os_open",
                     !.err = IF \E a \in DOMAIN schema : schema[a] \notin SupportedTypes
                             THEN "TypeError" ELSE "ok"]]
    /\ UNCHANGED <<initlock, objects>>

\* db_is_memory: CREATE TABLE on the private database, then return
MemoryCreate(c, ok) ==
    /\ Opening(c, "memory_create")
    /\ opener' = [opener EXCEPT ![c].pc = IF ok THEN "returned" ELSE "raised",
                                ![c].err = IF ok THEN "ok" ELSE "OperationalError"]
    /\ UNCHANGED <<initlock, objects>>

\* lockfd = os.open(lock_path, O_CREAT | O_RDWR, 0o600)
OsOpen(c, ok) ==
    /\ Opening(c, "os_open")
    /\ opener' = [opener EXCEPT ![c].pc = IF ok THEN "flock" ELSE "raised",
                                ![c].lockfd = ok,
                                ![c].err = IF ok THEN "ok" ELSE "OSError"]
    /\ UNCHANGED <<initlock, objects>>

\* fcntl.flock(lockfd, LOCK_EX) taking the lock although another opener holds it
FlockShared(c) ==
    /\ Opening(c, "flock")
    /\ initlock' = c
    /\ opener' = [opener EXCEPT ![c].pc = "journal_mode"]
    /\ UNCHANGED objects

\* fcntl.flock(lockfd, LOCK_EX): blocks while another opener holds the lock
Flock(c) ==
    /\ Opening(c, "flock")
    /\ initlock = 0
    /\ initlock' = c
    /\ opener' = [opener EXCEPT ![c].pc = "journal_mode"]
    /\ UNCHANGED objects

\* one statement of the try block: it succeeds, or raises OperationalError
\* (passed over for the PRAGMAs and the meta update, propagated otherwise)
InitStep(c, ok) ==
    /\ opener[c].pc \in InsideTry
    /\ LET stmt == opener[c].pc
           skip == stmt = "create_index"
                   /\ ~({"status", "end_time"} \subseteq DOMAIN schema)
       IN  /\ objects' = IF ok /\ ~skip THEN objects \cup Creates(stmt) ELSE objects
           /\ opener' = [opener EXCEPT ![c] =
                  IF ok \/ skip \/ stmt \in {"journal_mode", "update_meta"}
                  THEN [@ EXCEPT !.pc = StepAfter(stmt)]
                  ELSE [@ EXCEPT !.pc = "finally", !.err = "OperationalError"]]
    /\ UNCHANGED initlock

\* finally: fcntl.flock(lockfd, LOCK_UN); os.close(lockfd)
Finally(c) ==
    /\ Opening(c, "finally")
    /\ initlock' = IF initlock = c THEN 0 ELSE initlock
    /\ opener' = [opener EXCEPT ![c].pc = IF opener[c].err = "ok"
                                          THEN "returned" ELSE "raised",
                                ![c].lockfd = FALSE]
    /\ UNCHANGED objects

InitOpen ==
    /\ StoreInit
    /\ schema \in OpenSchemas
    /\ ConcInit
    /\ TimerIdle

otherVars == <<storeVars, pc, lock, pending, tries, attempts, failures, result,
               dbRows, dbSeq, retry, watchVars, timerVars>>
NextOpen ==
    \/ \E c \in Openers, path \in Paths : AutoInit(c, path) /\ UNCHANGED otherVars
    \/ \E c \in Openers, ok \in BOOLEAN : MemoryCreate(c, ok) /\ UNCHANGED otherVars
    \/ \E c \in Openers, ok \in BOOLEAN : OsOpen(c, ok) /\ UNCHANGED otherVars
    \/ \E c \in Openers : Flock(c) /\ UNCHANGED otherVars
    \/ \E c \in Openers, ok \in BOOLEAN : InitStep(c, ok) /\ UNCHANGED otherVars
    \/ \E c \in Openers : Finally(c) /\ UNCHANGED otherVars
SpecOpen == InitOpen /\ [][NextOpen]_vars
\* every opener that can take a step takes one: threads and processes run
SpecOpenLive == SpecOpen /\ \A c \in Openers : WF_openVars(
    \/ \E path \in Paths : AutoInit(c, path)
    \/ \E ok \in BOOLEAN : MemoryCreate(c, ok) \/ OsOpen(c, ok) \/ InitStep(c, ok)
    \/ Flock(c)
    \/ Finally(c))

(***************************************************************************)
(* The delay of _execute_write_with_retry and _execute_read_with_retry.    *)
(* A delay is kept as the exact fraction n/d of a second; Python computes  *)
(* it in binary floating point, within 1e-15 of the fraction.              *)
(*                                                                         *)
(* retry[c].helper  "write" or "read"                                      *)
(* retry[c].st      "idle", "running", "returned" or "raised"              *)
(* retry[c].tries   iterations of the for loop used up                     *)
(* retry[c].delay   the local variable delay                               *)
(* retry[c].slept   the argument of the last time.sleep(delay)             *)
(***************************************************************************)
Helpers == {"write", "read"}
Messages == {"database is locked", "database is busy", "disk i/o error",
             "attempt to write a readonly database"}
Fraction(n, d) == [n |-> n, d |-> d]
Less(a, b) == a.n * b.d < b.n * a.d
\* delay = 0.05 and delay = 0.02
FirstDelay(helper) == IF helper = "write" THEN Fraction(1, 20) ELSE Fraction(1, 50)
\* the 0.8 and the 0.6 of the conditional expressions
DelayCap(helper) == IF helper = "write" THEN Fraction(4, 5) ELSE Fraction(3, 5)
\* the messages each helper sleeps and continues on
Retried(helper, msg) ==
    IF helper = "write" THEN IsTransientWrite(msg)
    ELSE msg \in {"database is locked", "database is busy"}

\* delay = delay * 1.6 if delay < cap else cap
NextDelay(helper, delay) ==
    IF Less(delay, DelayCap(helper)) THEN Fraction(delay.n * 8, delay.d * 5)
    ELSE DelayCap(helper)

\* the helper is entered
RetryCall(c, helper) ==
    /\ retry[c].st = "idle"
    /\ retry' = [retry EXCEPT ![c] =
           [NoRetry EXCEPT !.helper = helper, !.st = "running",
                           !.delay = FirstDelay(helper)]]

\* one execute (and commit): it returns, or raises OperationalError(msg);
\* inside the loop a retried message sleeps and grows the delay
RetryAttempt(c, outcome) ==
    /\ retry[c].st = "running"
    /\ retry' = [retry EXCEPT ![c] =
           IF outcome = "ok" THEN [@ EXCEPT !.st = "returned"]
           ELSE IF retry[c].tries < MaxSleeps /\ Retried(retry[c].helper, outcome)
           THEN [@ EXCEPT !.tries = @ + 1,
                          !.slept = retry[c].delay,
                          !.delay = NextDelay(retry[c].helper, retry[c].delay)]
           ELSE [@ EXCEPT !.st = "raised"]]

retryOthers == <<storeVars, pc, lock, pending, tries, attempts, failures, result,
                 dbRows, dbSeq, openVars, watchVars, timerVars>>
NextRetry ==
    \/ \E c \in Conns, helper \in Helpers : RetryCall(c, helper) /\ UNCHANGED retryOthers
    \/ \E c \in Conns, outcome \in Messages \cup {"ok"} :
           RetryAttempt(c, outcome) /\ UNCHANGED retryOthers
SpecRetry == InitConc /\ [][NextRetry]_vars

(***************************************************************************)
(* time_manager.py: a TimeManager, its TimerWatcher, the thread that calls *)
(* them and the watcher's thread per timer.  Time passes in ticks; a       *)
(* thread inside event.wait(duration) has threads[id].left ticks to go.    *)
(* The callback of timer id is known by the id; called[id] counts its      *)
(* invocations.  Ids start at 0, so the maps are kept as functions on sets *)
(* of ids.                                                                 *)
(***************************************************************************)
Durations == 0..MaxDuration
WatchIds == 0..(MaxWatched - 1)
Put(f, k, v) == [x \in DOMAIN f \cup {k} |-> IF x = k THEN v ELSE f[x]]
NewThread == [pc |-> "get_timer", duration |-> 0, left |-> 0]

\* add_timer(duration, callback)
AddTimer(duration) ==
    /\ calls < MaxWatchCalls
    /\ calls' = calls + 1
    /\ counter < MaxWatched
    /\ IF duration <= 0 THEN UNCHANGED <<timers, counter, called>>
       ELSE /\ timers' = Put(timers, counter, duration)
            /\ counter' = counter + 1
            /\ called' = Put(called, counter, 0)
    /\ UNCHANGED <<events, threads, updated>>

\* update_timer(timer_id, duration): ValueError, KeyError, or the new duration
UpdateTimer(timer_id, duration) ==
    /\ calls < MaxWatchCalls
    /\ calls' = calls + 1
    /\ IF duration <= 0 \/ timer_id \notin DOMAIN timers
       THEN UNCHANGED <<timers, updated>>
       ELSE /\ timers' = [timers EXCEPT ![timer_id] = duration]
            /\ updated' = updated \cup {timer_id}
    /\ UNCHANGED <<counter, events, threads, called>>

\* watch_all(): an Event and a started thread for every id without a thread
WatchAll ==
    /\ calls < MaxWatchCalls
    /\ calls' = calls + 1
    /\ events' = [id \in DOMAIN timers |->
                     IF id \in DOMAIN threads THEN events[id] ELSE FALSE]
    /\ threads' = [id \in DOMAIN timers |->
                      IF id \in DOMAIN threads THEN threads[id] ELSE NewThread]
    /\ UNCHANGED <<timers, counter, called, updated>>

\* notify_update(timer_id): event.set() if the timer has an Event
NotifyUpdate(timer_id) ==
    /\ calls < MaxWatchCalls
    /\ calls' = calls + 1
    /\ events' = IF timer_id \in DOMAIN events
                 THEN [events EXCEPT ![timer_id] = TRUE] ELSE events
    /\ updated' = IF timer_id \in DOMAIN events THEN updated \ {timer_id} ELSE updated
    /\ UNCHANGED <<timers, counter, threads, called>>

\* join(): returns when every thread of _threads has exited
Join ==
    /\ calls < MaxWatchCalls
    /\ calls' = calls + 1
    /\ \A id \in DOMAIN threads : threads[id].pc = "exited"
    /\ UNCHANGED watchVars

\* _run leaving the duration as it read it the first time
RunKeepDuration(id) ==
    /\ id \in DOMAIN threads
    /\ threads[id].pc = "get_timer"
    /\ LET d == IF threads[id].duration > 0 THEN threads[id].duration ELSE timers[id]
       IN threads' = [threads EXCEPT ![id] = [pc |-> "wait", duration |-> d, left |-> d]]
    /\ UNCHANGED <<timers, counter, events, called, updated, calls>>

\* _run: duration, callback = self._manager.get_timer(timer_id);
\* event = self._events[timer_id]
RunGetTimer(id) ==
    /\ id \in DOMAIN threads
    /\ threads[id].pc = "get_timer"
    /\ threads' = [threads EXCEPT ![id] =
           [pc |-> "wait", duration |-> timers[id], left |-> timers[id]]]
    /\ UNCHANGED <<timers, counter, events, called, updated, calls>>

\* event.wait(duration) is entered: True at once if the flag is set
RunWait(id) ==
    /\ id \in DOMAIN threads
    /\ threads[id].pc = "wait"
    /\ threads' = [threads EXCEPT ![id].pc = IF events[id] THEN "clear" ELSE "blocked"]
    /\ UNCHANGED <<timers, counter, events, called, updated, calls>>

\* event.set() wakes the waiting thread: wait returns True
RunWoken(id) ==
    /\ id \in DOMAIN threads
    /\ threads[id].pc = "blocked"
    /\ events[id]
    /\ threads' = [threads EXCEPT ![id].pc = "clear"]
    /\ UNCHANGED <<timers, counter, events, called, updated, calls>>

\* the timeout elapsed: wait returns False
RunTimeout(id) ==
    /\ id \in DOMAIN threads
    /\ threads[id].pc = "blocked"
    /\ threads[id].left = 0
    /\ threads' = [threads EXCEPT ![id].pc = "callback"]
    /\ UNCHANGED <<timers, counter, events, called, updated, calls>>

\* event.clear(); continue
RunClear(id) ==
    /\ id \in DOMAIN threads
    /\ threads[id].pc = "clear"
    /\ events' = [events EXCEPT ![id] = FALSE]
    /\ threads' = [threads EXCEPT ![id].pc = "get_timer"]
    /\ UNCHANGED <<timers, counter, called, updated, calls>>

\* callback(); break
RunCallback(id) ==
    /\ id \in DOMAIN threads
    /\ threads[id].pc = "callback"
    /\ called' = [called EXCEPT ![id] = @ + 1]
    /\ threads' = [threads EXCEPT ![id].pc = "exited"]
    /\ UNCHANGED <<timers, counter, events, updated, calls>>

\* the next statement of the thread of timer id
RunStep(id) ==
    \/ RunGetTimer(id)
    \/ RunWait(id)
    \/ RunWoken(id)
    \/ RunTimeout(id)
    \/ RunClear(id)
    \/ RunCallback(id)

\* a tick of time passes for the threads that wait
TickWait ==
    /\ \E id \in DOMAIN threads : threads[id].pc = "blocked" /\ threads[id].left > 0
    /\ threads' = [id \in DOMAIN threads |->
                      IF threads[id].pc = "blocked" /\ threads[id].left > 0
                      THEN [threads[id] EXCEPT !.left = @ - 1] ELSE threads[id]]
    /\ UNCHANGED <<timers, counter, events, called, updated, calls>>

watchOthers == <<storeVars, pc, lock, pending, tries, attempts, failures, result,
                 dbRows, dbSeq, openVars, retry, now, tpc, loc, px>>
NextWatch ==
    \/ \E duration \in Durations : AddTimer(duration) /\ UNCHANGED watchOthers
    \/ \E id \in WatchIds, duration \in Durations :
           UpdateTimer(id, duration) /\ UNCHANGED watchOthers
    \/ WatchAll /\ UNCHANGED watchOthers
    \/ \E id \in WatchIds : NotifyUpdate(id) /\ UNCHANGED watchOthers
    \/ Join /\ UNCHANGED watchOthers
    \/ \E id \in WatchIds : RunGetTimer(id) /\ UNCHANGED watchOthers
    \/ \E id \in WatchIds : RunWait(id) /\ UNCHANGED watchOthers
    \/ \E id \in WatchIds : RunWoken(id) /\ UNCHANGED watchOthers
    \/ \E id \in WatchIds : RunTimeout(id) /\ UNCHANGED watchOthers
    \/ \E id \in WatchIds : RunClear(id) /\ UNCHANGED watchOthers
    \/ \E id \in WatchIds : RunCallback(id) /\ UNCHANGED watchOthers
    \/ TickWait /\ UNCHANGED watchOthers
SpecWatch == InitConc /\ [][NextWatch]_vars
\* time passes and every started thread runs
SpecWatchLive ==
    /\ SpecWatch
    /\ WF_watchVars(TickWait)
    /\ \A id \in WatchIds : WF_watchVars(RunStep(id))

(***************************************************************************)
(* TimerManager (timer_manager.py): timers are the rows of a DataManager   *)
(* table with the schema below.  Every method is the sequence of its       *)
(* DataManager calls; each call commits on its own, so the statements of   *)
(* concurrent callers interleave and the clock may advance between them.   *)
(***************************************************************************)
PAUSED == PyStr(<<"p", "a", "u", "s", "e", "d">>)
RUNNING == PyStr(<<"r", "u", "n", "n", "i", "n", "g">>)
FINISHED == PyStr(<<"f", "i", "n", "i", "s", "h", "e", "d">>)
NOT_SET == PyFloat(-2)       \* -1.0
MaxNameLen == 100

TimerSchema ==
    [duration |-> "float", start_time |-> "float", end_time |-> "float",
     status |-> "str", name |-> "str"]

\* time.time() and float(n) as values of the model
Time(n) == PyFloat(2 * n)
FloatOf(n) == PyFloat(2 * n.v)

\* the Python exception a DataManager error is
PyExc(err) ==
    CASE err \in {"NotFound", "UnknownAttribute", "SchemaMismatch"} -> "ValueError"
      [] err \in {"TypeMismatch", "UnsupportedSortType"} -> "TypeError"
      [] OTHER -> err

\* arguments of the calls
NameOfLen(n) == PyStr([i \in 1..n |-> "x"])
\* create_timer: names and durations at the edges of what it accepts, and
\* one argument of another type each
CreateArgs ==
    {<<NameOfLen(1), PyInt(1)>>, <<NameOfLen(MaxNameLen), PyInt(2)>>,
     <<NameOfLen(0), PyInt(1)>>, <<NameOfLen(MaxNameLen + 1), PyInt(1)>>,
     <<NameOfLen(1), PyInt(0)>>, <<NameOfLen(1), PyInt(-1)>>,
     <<PyInt(1), PyInt(1)>>, <<NameOfLen(1), PyFloat(2)>>}
TimerIds == 0..(MaxTimers + 1)
Numbers == 0..(MaxTimers + 1)      \* number of timers_about_finishing
TimerOps ==
    {"pause_timer", "resume_timer", "rm_timer", "mark_timer_finished",
     "get_timer_info"}

InitTimer ==
    /\ schema = TimerSchema
    /\ table = <<>>
    /\ seq = 0
    /\ written = <<>>
    /\ returned = <<>>
    /\ removed = {}
    /\ last = [op |-> "init", id |-> 0, err |-> "ok", ret |-> PyNone]
    /\ ConcInit
    /\ TimerIdle

\* a call begins: its arguments, and the table as the caller finds it
NewCall(op, id, arg) == [NoCall EXCEPT !.op = op, !.id = id, !.arg = arg, !.pre = table]

\* the call returns or raises
Return(t, err, ret) ==
    /\ tpc' = [tpc EXCEPT ![t] = "idle"]
    /\ loc' = [loc EXCEPT ![t] =
                  [NoCall EXCEPT !.op = loc[t].op, !.id = loc[t].id,
                                 !.arg = loc[t].arg, !.pre = loc[t].pre,
                                 !.err = err, !.ret = ret]]

\* the call goes on to its next statement
Goto(t, label) ==
    /\ tpc' = [tpc EXCEPT ![t] = label]
    /\ UNCHANGED loc

Tick ==
    /\ now < Epoch + MaxTime
    /\ now' = now + 1
    /\ UNCHANGED <<storeVars, concVars, tpc, loc, calls>>

\* create_timer: the arguments it raises ValueError for
CreateInvalidOffByOne(name, duration) ==
    \/ name.t # "str"
    \/ ~IsInstance(duration, "int")
    \/ duration.v < 0
    \/ Len(name.v) = 0
    \/ Len(name.v) >= MaxNameLen
CreateInvalid(name, duration) ==
    \/ name.t # "str"
    \/ ~IsInstance(duration, "int")
    \/ duration.v <= 0
    \/ Len(name.v) = 0
    \/ Len(name.v) > MaxNameLen

\* create_timer(name, duration)
CreateTimer(t, name, duration) ==
    /\ tpc[t] = "idle"
    /\ calls < MaxCalls
    /\ calls' = calls + 1
    /\ LET call == NewCall("create_timer", 0, <<name, duration>>)
       IN IF CreateInvalid(name, duration)
          THEN /\ loc' = [loc EXCEPT ![t] = [call EXCEPT !.err = "ValueError"]]
               /\ UNCHANGED <<table, seq>>
          ELSE \E out \in {AddItem(table, seq,
                              [name |-> name,
                               duration |-> FloatOf(duration),
                               start_time |-> Time(now),
                               end_time |-> PyFloat(Time(now).v + FloatOf(duration).v),
                               status |-> RUNNING])} :
                   /\ seq < MaxTimers
                   /\ table' = out.tbl
                   /\ seq' = out.sq
                   /\ loc' = [loc EXCEPT ![t] =
                                 [call EXCEPT !.err = PyExc(out.err), !.ret = out.ret]]
    /\ UNCHANGED <<schema, written, returned, removed, last, concVars, now, tpc>>

\* required_attributes of timers_about_finishing: {"status": RUNNING}
AnyStatusFilter == <<>>
RunningFilter == <<(<<"status", RUNNING>>)>>

\* timers_about_finishing(number)
TimersAboutFinishing(t, number) ==
    /\ tpc[t] = "idle"
    /\ calls < MaxCalls
    /\ calls' = calls + 1
    /\ LET call == NewCall("timers_about_finishing", 0, PyInt(number)) IN
       IF number <= 0
       THEN loc' = [loc EXCEPT ![t] = [call EXCEPT !.err = "ValueError"]]
       ELSE \E out \in {TopNByAttr(table, seq, "end_time", number, FALSE,
                                   RunningFilter)} :
                IF out.err = "ok"
                THEN \E ret \in out.ret :
                         loc' = [loc EXCEPT ![t] = [call EXCEPT !.err = "ok", !.ret = ret]]
                ELSE loc' = [loc EXCEPT ![t] = [call EXCEPT !.err = PyExc(out.err)]]
    /\ UNCHANGED <<storeVars, concVars, now, tpc>>

\* one of the calls that begin with is_timer_exists(timer_id)
CallOp(t, op, id) ==
    /\ tpc[t] = "idle"
    /\ calls < MaxCalls
    /\ calls' = calls + 1
    /\ tpc' = [tpc EXCEPT ![t] = "exists"]
    /\ loc' = [loc EXCEPT ![t] = NewCall(op, id, PyNone)]
    /\ UNCHANGED <<storeVars, concVars, now>>

\* what a call does when is_timer_exists(timer_id) is False at its head:
\* the assert of pause_timer, resume_timer and rm_timer fails,
\* mark_timer_finished returns, get_timer_info raises ValueError
OnMissingAssertsAll(op) ==
    IF op = "get_timer_info" THEN "ValueError" ELSE "AssertionError"
OnMissingReturns(op) ==
    CASE op \in {"pause_timer", "resume_timer"} -> "AssertionError"
      [] op \in {"rm_timer", "mark_timer_finished"} -> "ok"
      [] OTHER -> "ValueError"
OnMissing(op) ==
    CASE op \in {"pause_timer", "resume_timer", "rm_timer"} -> "AssertionError"
      [] op = "mark_timer_finished" -> "ok"
      [] OTHER -> "ValueError"

\* the statement a call goes on with when the timer exists
OnFound(op) ==
    CASE op \in {"pause_timer", "resume_timer"} -> "chk_exists"
      [] op = "rm_timer" -> "rm_item"
      [] op = "mark_timer_finished" -> "fin_status"
      [] OTHER -> "info_name"

\* is_timer_exists(timer_id): at the head of the call ("exists"), or inside
\* is_timer_running / is_timer_paused ("chk_exists")
IsTimerExists(t) ==
    /\ tpc[t] \in {"exists", "chk_exists"}
    /\ LET id == loc[t].id
           op == loc[t].op
           found == GetAttr(table, seq, id, "name").err = "ok"
       IN IF id <= 0 THEN Return(t, "ValueError", PyNone)
          ELSE IF tpc[t] = "chk_exists"
          THEN IF found THEN Goto(t, "chk_status")
               ELSE Return(t, "ValueError", PyNone)
          ELSE IF found THEN Goto(t, OnFound(op))
               ELSE Return(t, OnMissing(op), PyNone)
    /\ UNCHANGED <<storeVars, concVars, now, calls>>

\* self.dm.get_attr(timer_id, attr) into a local variable
ReadAttr(t, attr, next) ==
    \E out \in {GetAttr(table, seq, loc[t].id, attr)} :
        IF out.err # "ok" THEN Return(t, PyExc(out.err), PyNone)
        ELSE /\ tpc' = [tpc EXCEPT ![t] = next]
             /\ loc' = [loc EXCEPT ![t][attr] = out.ret]

\* self.dm.set_attr(timer_id, attr, value)
WriteAttr(t, attr, value, next) ==
    \E out \in {SetAttr(table, seq, loc[t].id, attr, value)} :
        /\ table' = out.tbl
        /\ seq' = out.sq
        /\ IF out.err # "ok" THEN Return(t, PyExc(out.err), PyNone)
           ELSE IF next = "idle" THEN Return(t, "ok", PyNone)
           ELSE Goto(t, next)
        /\ UNCHANGED <<schema, written, returned, removed, last, concVars, now, calls>>

\* is_timer_running / is_timer_paused: the four reads
ReadStatus(t) ==
    /\ tpc[t] = "chk_status"
    /\ ReadAttr(t, "status", "chk_duration")
    /\ UNCHANGED <<storeVars, concVars, now, calls>>

ReadDuration(t) ==
    /\ tpc[t] = "chk_duration"
    /\ ReadAttr(t, "duration", "chk_start")
    /\ UNCHANGED <<storeVars, concVars, now, calls>>

ReadStartTime(t) ==
    /\ tpc[t] = "chk_start"
    /\ ReadAttr(t, "start_time", "chk_end")
    /\ UNCHANGED <<storeVars, concVars, now, calls>>

\* is_timer_running after its reads: RuntimeError, or status == RUNNING,
\* which pause_timer asserts
IsTimerRunningAnyStatus(status, duration, start_time, end_time) ==
    IF end_time.v - duration.v # start_time.v THEN "RuntimeError"
    ELSE "ok"
IsTimerRunning(status, duration, start_time, end_time) ==
    IF end_time.v - duration.v # start_time.v THEN "RuntimeError"
    ELSE IF status # RUNNING THEN "AssertionError"
    ELSE "ok"

\* is_timer_paused after its reads: its four assertions
IsTimerPaused(status, duration, start_time, end_time) ==
    IF status # PAUSED THEN "AssertionError"
    ELSE IF ~(duration.v >= 0) THEN "AssertionError"
    ELSE IF start_time # NOT_SET THEN "AssertionError"
    ELSE IF end_time # NOT_SET THEN "AssertionError"
    ELSE "ok"

\* the last read of is_timer_running (pause_timer) or is_timer_paused
\* (resume_timer), and the check
ReadEndTime(t) ==
    /\ tpc[t] = "chk_end"
    /\ \E out \in {GetAttr(table, seq, loc[t].id, "end_time")} :
           IF out.err # "ok" THEN Return(t, PyExc(out.err), PyNone)
           ELSE LET l == loc[t]
                    verdict ==
                        IF l.op = "pause_timer"
                        THEN IsTimerRunning(l.status, l.duration, l.start_time, out.ret)
                        ELSE IsTimerPaused(l.status, l.duration, l.start_time, out.ret)
                IN IF verdict # "ok" THEN Return(t, verdict, PyNone)
                   ELSE /\ tpc' = [tpc EXCEPT ![t] =
                                      IF l.op = "pause_timer" THEN "pause_end"
                                      ELSE "resume_duration"]
                        /\ loc' = [loc EXCEPT ![t].end_time = out.ret]
    /\ UNCHANGED <<storeVars, concVars, now, calls>>

\* pause_timer: end_time = self.dm.get_attr(timer_id, "end_time")
PauseReadEnd(t) ==
    /\ tpc[t] = "pause_end"
    /\ ReadAttr(t, "end_time", "pause_duration")
    /\ UNCHANGED <<storeVars, concVars, now, calls>>

\* remaining = end_time - time.time(); set_attr(timer_id, "duration", remaining)
PauseKeepsDuration(t) ==
    /\ tpc[t] = "pause_duration"
    /\ WriteAttr(t, "duration", loc[t].duration, "pause_start")
PauseSetDuration(t) ==
    /\ tpc[t] = "pause_duration"
    /\ WriteAttr(t, "duration", PyFloat(loc[t].end_time.v - Time(now).v), "pause_start")

PauseSetStart(t) ==
    /\ tpc[t] = "pause_start"
    /\ WriteAttr(t, "start_time", NOT_SET, "pause_endset")

PauseSetEnd(t) ==
    /\ tpc[t] = "pause_endset"
    /\ WriteAttr(t, "end_time", NOT_SET, "pause_status")

PauseSetStatus(t) ==
    /\ tpc[t] = "pause_status"
    /\ WriteAttr(t, "status", PAUSED, "idle")

\* resume_timer: duration = get_attr(timer_id, "duration"); ValueError when
\* it is negative; start_time = time.time(); end_time = start_time + duration
ResumeReadDuration(t) ==
    /\ tpc[t] = "resume_duration"
    /\ \E out \in {GetAttr(table, seq, loc[t].id, "duration")} :
           IF out.err # "ok" THEN Return(t, PyExc(out.err), PyNone)
           ELSE IF out.ret.v < 0 THEN Return(t, "ValueError", PyNone)
           ELSE /\ tpc' = [tpc EXCEPT ![t] = "resume_start"]
                /\ loc' = [loc EXCEPT ![t].duration = out.ret,
                                      ![t].start_time = Time(now),
                                      ![t].end_time = PyFloat(Time(now).v + out.ret.v)]
    /\ UNCHANGED <<storeVars, concVars, now, calls>>

ResumeSetStart(t) ==
    /\ tpc[t] = "resume_start"
    /\ WriteAttr(t, "start_time", loc[t].start_time, "resume_end")

ResumeSetEnd(t) ==
    /\ tpc[t] = "resume_end"
    /\ WriteAttr(t, "end_time", loc[t].end_time, "resume_status")

ResumeSetStatus(t) ==
    /\ tpc[t] = "resume_status"
    /\ WriteAttr(t, "status", RUNNING, "idle")

\* rm_timer: self.dm.rm_item(timer_id)
RmTimer(t) ==
    /\ tpc[t] = "rm_item"
    /\ \E out \in {RmItem(table, seq, loc[t].id)} :
           /\ table' = out.tbl
           /\ seq' = out.sq
           /\ Return(t, PyExc(out.err), PyNone)
    /\ UNCHANGED <<schema, written, returned, removed, last, concVars, now, calls>>

\* mark_timer_finished: status = get_attr(timer_id, "status"); return when
\* it is FINISHED
FinishReadStatus(t) ==
    /\ tpc[t] = "fin_status"
    /\ \E out \in {GetAttr(table, seq, loc[t].id, "status")} :
           IF out.err # "ok" THEN Return(t, PyExc(out.err), PyNone)
           ELSE IF out.ret = FINISHED THEN Return(t, "ok", PyNone)
           ELSE Goto(t, "fin_set")
    /\ UNCHANGED <<storeVars, concVars, now, calls>>

FinishSetStatus(t) ==
    /\ tpc[t] = "fin_set"
    /\ WriteAttr(t, "status", FINISHED, "idle")

\* get_timer_info: the five reads, then the dict
InfoReadName(t) ==
    /\ tpc[t] = "info_name"
    /\ ReadAttr(t, "name", "info_duration")
    /\ UNCHANGED <<storeVars, concVars, now, calls>>

InfoReadDuration(t) ==
    /\ tpc[t] = "info_duration"
    /\ ReadAttr(t, "duration", "info_start")
    /\ UNCHANGED <<storeVars, concVars, now, calls>>

InfoReadStart(t) ==
    /\ tpc[t] = "info_start"
    /\ ReadAttr(t, "start_time", "info_end")
    /\ UNCHANGED <<storeVars, concVars, now, calls>>

InfoReadEnd(t) ==
    /\ tpc[t] = "info_end"
    /\ ReadAttr(t, "end_time", "info_status")
    /\ UNCHANGED <<storeVars, concVars, now, calls>>

InfoReadStatus(t) ==
    /\ tpc[t] = "info_status"
    /\ \E out \in {GetAttr(table, seq, loc[t].id, "status")} :
           IF out.err # "ok" THEN Return(t, PyExc(out.err), PyNone)
           ELSE Return(t, "ok",
                       [id |-> loc[t].id, name |-> loc[t].name,
                        duration |-> loc[t].duration,
                        start_time |-> loc[t].start_time,
                        end_time |-> loc[t].end_time, status |-> out.ret])
    /\ UNCHANGED <<storeVars, concVars, now, calls>>

(***************************************************************************)
(* TimerWatcher._wait_for_timer (history.py): the task that waits for one  *)
(* timer on the watcher's own connection.                                  *)
(***************************************************************************)
\* _schedule_watch(timer_id)
ScheduleWatch(t, id) ==
    /\ tpc[t] = "idle"
    /\ calls < MaxCalls
    /\ calls' = calls + 1
    /\ tpc' = [tpc EXCEPT ![t] = "watch_status"]
    /\ loc' = [loc EXCEPT ![t] = NewCall("watch", id, PyNone)]
    /\ UNCHANGED <<storeVars, concVars, now>>

\* status = get_attr(timer_id, "status"), before and after the sleep; the
\* ValueError of a missing timer ends the task
WatchReadStatus(t) ==
    /\ tpc[t] \in {"watch_status", "woke_status"}
    /\ \E out \in {GetAttr(table, seq, loc[t].id, "status")} :
           IF out.err # "ok" THEN Return(t, "ok", PyNone)
           ELSE /\ tpc' = [tpc EXCEPT ![t] =
                              IF tpc[t] = "watch_status" THEN "watch_end" ELSE "woke_end"]
                /\ loc' = [loc EXCEPT ![t].status = out.ret]
    /\ UNCHANGED <<storeVars, concVars, now, calls>>

\* end_time = get_attr(timer_id, "end_time"); return unless RUNNING;
\* delay = max(0.0, end_time - now)
WatchReadEnd(t) ==
    /\ tpc[t] = "watch_end"
    /\ \E out \in {GetAttr(table, seq, loc[t].id, "end_time")} :
           IF out.err # "ok" THEN Return(t, "ok", PyNone)
           ELSE IF loc[t].status # RUNNING THEN Return(t, "ok", PyNone)
           ELSE /\ tpc' = [tpc EXCEPT ![t] = "watch_sleep"]
                /\ loc' = [loc EXCEPT ![t].end_time = out.ret,
                                      ![t].wake = Max(Time(now).v, out.ret.v)]
    /\ UNCHANGED <<storeVars, concVars, now, calls>>

\* await asyncio.sleep(delay) is over
WatchWake(t) ==
    /\ tpc[t] = "watch_sleep"
    /\ Time(now).v >= loc[t].wake
    /\ Goto(t, "woke_status")
    /\ UNCHANGED <<storeVars, concVars, now, calls>>

\* asyncio.CancelledError during the sleep (_cancel_watch)
WatchCancelled(t) ==
    /\ tpc[t] = "watch_sleep"
    /\ Return(t, "ok", PyNone)
    /\ UNCHANGED <<storeVars, concVars, now, calls>>

\* the re-check after the sleep: return unless RUNNING; finish the timer when
\* time.time() >= end_time, else wait again
WatchRecheckEnd(t) ==
    /\ tpc[t] = "woke_end"
    /\ \E out \in {GetAttr(table, seq, loc[t].id, "end_time")} :
           IF out.err # "ok" THEN Return(t, "ok", PyNone)
           ELSE IF loc[t].status # RUNNING THEN Return(t, "ok", PyNone)
           ELSE /\ tpc' = [tpc EXCEPT ![t] =
                              IF Time(now).v >= out.ret.v THEN "watch_finish"
                              ELSE "watch_status"]
                /\ loc' = [loc EXCEPT ![t].end_time = out.ret]
    /\ UNCHANGED <<storeVars, concVars, now, calls>>

\* self._worker_dm.set_attr(timer_id, "status", FINISHED)
WatchFinishAnyRow(t) ==
    /\ tpc[t] = "watch_finish"
    /\ IF loc[t].id \in DOMAIN table THEN WriteAttr(t, "status", FINISHED, "idle")
       ELSE /\ Return(t, "ok", PyNone)
            /\ UNCHANGED <<storeVars, concVars, now, calls>>
WatchFinish(t) ==
    /\ tpc[t] = "watch_finish"
    /\ WriteAttr(t, "status", FINISHED, "idle")

(***************************************************************************)
(* SpecTimer: one caller.  SpecTimerConc: every thread is a caller or a    *)
(* watcher task.                                                           *)
(***************************************************************************)
\* the next statement of the call thread t is in
TimerStep(t) ==
    \/ IsTimerExists(t)
    \/ ReadStatus(t)
    \/ ReadDuration(t)
    \/ ReadStartTime(t)
    \/ ReadEndTime(t)
    \/ PauseReadEnd(t)
    \/ PauseSetDuration(t)
    \/ PauseSetStart(t)
    \/ PauseSetEnd(t)
    \/ PauseSetStatus(t)
    \/ ResumeReadDuration(t)
    \/ ResumeSetStart(t)
    \/ ResumeSetEnd(t)
    \/ ResumeSetStatus(t)
    \/ RmTimer(t)
    \/ FinishReadStatus(t)
    \/ FinishSetStatus(t)

\* the next read of get_timer_info
InfoStep(t) ==
    \/ InfoReadName(t)
    \/ InfoReadDuration(t)
    \/ InfoReadStart(t)
    \/ InfoReadEnd(t)
    \/ InfoReadStatus(t)

WatchStep(t) ==
    \/ WatchReadStatus(t)
    \/ WatchReadEnd(t)
    \/ WatchWake(t)
    \/ WatchCancelled(t)
    \/ WatchRecheckEnd(t)
    \/ WatchFinish(t)

Caller == 1

NextTimer ==
    \/ Tick /\ UNCHANGED px
    \/ \E args \in CreateArgs : CreateTimer(Caller, args[1], args[2]) /\ UNCHANGED px
    \/ \E number \in Numbers : TimersAboutFinishing(Caller, number) /\ UNCHANGED px
    \/ \E op \in TimerOps, id \in TimerIds : CallOp(Caller, op, id) /\ UNCHANGED px
    \/ TimerStep(Caller) /\ UNCHANGED px
    \/ InfoStep(Caller) /\ UNCHANGED px
SpecTimer == InitTimer /\ [][NextTimer]_vars

NextTimerConc ==
    \/ Tick /\ UNCHANGED px
    \/ \E t \in Threads : CreateTimer(t, NameOfLen(1), PyInt(1)) /\ UNCHANGED px
    \/ \E t \in Threads, op \in TimerOps \ {"get_timer_info"}, id \in 1..MaxTimers :
           CallOp(t, op, id) /\ UNCHANGED px
    \/ \E t \in Threads, id \in 1..MaxTimers : ScheduleWatch(t, id) /\ UNCHANGED px
    \/ \E t \in Threads : TimerStep(t) /\ UNCHANGED px
    \/ \E t \in Threads : WatchStep(t) /\ UNCHANGED px
SpecTimerConc == InitTimer /\ [][NextTimerConc]_vars

(***************************************************************************)
(* TimerManagerProxy (timer_manager.py; main.py keeps an earlier copy that *)
(* only dispatches callbacks).  The proxy is used from the thread that     *)
(* made the TimerManager: sqlite3 refuses the manager's connection to      *)
(* every other thread with ProgrammingError.  A call of the proxy is the   *)
(* call of the manager, statement by statement, and then _notify with all  *)
(* that the callbacks do.                                                  *)
(*                                                                         *)
(* px.kind       which TimerManagerProxy it is                             *)
(* px.callbacks  self._callbacks, in registration order                    *)
(* px.closest    self.the_closest_timers                                   *)
(* px.task       self.task: the Future of the last wait submitted          *)
(* px.orphans    waits still in the pool that self.task no longer names    *)
(* px.tasks      TimerWatcher._tasks: the ids it holds a future for        *)
(* px.coro       per id, the watcher coroutine that is not running now     *)
(* px.cancelled  the coroutine running on the loop was cancelled           *)
(* px.phase, px.call  where the caller's proxy call stands, and the call   *)
(*               with the event it published and its outcome               *)
(* px.log        the callbacks the caller's thread invoked since the call  *)
(*               began: <<callback, event, id, top>>                       *)
(* px.finpub     history: the finished events finish_timer and the watcher *)
(*               published, with the publisher; for finish_timer also      *)
(*               whether self.task was another than when status was set    *)
(* px.fired      history: the ids on_finished was invoked with             *)
(***************************************************************************)
MaxWorkers == 4         \* ThreadPoolExecutor(max_workers=4)
LoopThread == 2         \* the thread of the watcher's event loop
NoTask == [st |-> "none", id |-> 0, end |-> 0]
NoCoro == [st |-> "none", wake |-> 0]

ProxyKinds == {"timer_manager", "main"}
\* the callback a user registers: it records the event
UserCallbacks == {"record"}

\* TimerManagerProxy.__init__: new_tracking_task() over the empty table,
\* add_callback(self._handle_event); main.py's has no _handle_event
NewProxy(kind) ==
    [kind |-> kind,
     callbacks |-> IF kind = "timer_manager" THEN <<"_handle_event">> ELSE <<>>,
     closest |-> <<>>, task |-> NoTask, orphans |-> <<>>,
     tasks |-> {}, coro |-> [id \in 1..MaxTimers |-> NoCoro], cancelled |-> FALSE,
     loop |-> "running",
     phase |-> "idle",
     call |-> [op |-> "none", id |-> 0, event |-> "none", err |-> "none", ret |-> PyNone],
     log |-> <<>>, finpub |-> <<>>, fired |-> <<>>]

InitProxy ==
    /\ schema = TimerSchema
    /\ table = <<>>
    /\ seq = 0
    /\ written = <<>>
    /\ returned = <<>>
    /\ removed = {}
    /\ last = [op |-> "init", id |-> 0, err |-> "ok", ret |-> PyNone]
    /\ ConcInit
    /\ now = Epoch
    /\ tpc = [t \in Threads |-> "idle"]
    /\ loc = [t \in Threads |-> NoCall]
    /\ calls = 0
    /\ px \in {NewProxy(kind) : kind \in ProxyKinds}

\* what the scheduler of the threads decides while a call of the proxy runs:
\* sched.fast   a wait that is already due finishes in its worker before
\*              add_done_callback runs, so that the callback runs at once
\* sched.low    ORDER BY end_time leaves timers of equal end_time in the
\*              order of their ids (or not)
\* sched.thread the thread the callbacks run on: "main" or "loop"
Scheds(thread) ==
    {[fast |-> f, low |-> l, thread |-> thread] : f \in BOOLEAN, l \in BOOLEAN}

\* self._manager.timers_about_finishing(): () or (id,)
Soonest(tbl, sched) ==
    LET out == TopNByAttr(tbl, seq, "end_time", 1, FALSE, RunningFilter)
        firsts == {r[1] : r \in {s \in out.ret : Len(s) > 0}}
    IN IF firsts = {} THEN <<>>
       ELSE IF sched.low THEN <<CHOOSE i \in firsts : \A j \in firsts : i <= j>>
       ELSE <<SetMax(firsts)>>

\* waits in the pool that have not finished sleeping, and those a worker runs
Outstanding(p) ==
    Len(p.orphans) + (IF p.task.st \in {"pending", "running"} THEN 1 ELSE 0)
Running(p) ==
    Cardinality({i \in DOMAIN p.orphans : p.orphans[i].st = "running"})
        + (IF p.task.st = "running" THEN 1 ELSE 0)

\* The methods of the proxy call each other, so each is given as what one
\* activation does up to its return: the proxy and the table it leaves, the
\* exception it raises, and the calls it makes, as frames to run in order.
\* (top: the _notify of the caller's own event, not one finish_timer makes)
Frame(at, cbs, event, id, top) ==
    [at |-> at, cbs |-> cbs, event |-> event, id |-> id, top |-> top]
Do(at, id) == Frame(at, <<>>, "none", id, FALSE)
Effect(push, p, tbl, err) == [push |-> push, p |-> p, tbl |-> tbl, err |-> err]

\* self.task.cancel(): a Future that no worker has begun is cancelled and its
\* done callback, finish_timer(timer_id), runs here, its exception logged
\* ("callback"); a running or finished Future is left as it is
Cancel(p, tbl) ==
    IF p.task.st # "pending" THEN Effect(<<>>, p, tbl, "ok")
    ELSE Effect(<<Do("finish_timer", p.task.id), Do("callback", 0)>>,
                [p EXCEPT !.task.st = "cancelled"], tbl, "ok")

\* new_tracking_task(): without a RUNNING timer cancel and self.task = None,
\* else wait_timer(self.the_closest_timers[0], ...)
NewTrackingTask(p, tbl, sched) ==
    LET closest == Soonest(tbl, sched)
        q == [p EXCEPT !.closest = closest]
    IN IF closest = <<>>
       THEN IF q.task.st = "none" THEN Effect(<<>>, q, tbl, "ok")
            ELSE Effect(<<Do("cancel", 0), Do("task_none", 0)>>, q, tbl, "ok")
       ELSE Effect(<<Do("wait_timer", closest[1])>>, q, tbl, "ok")

\* wait_timer(timer_id, call_back): assert is_timer_exists(timer_id), cancel
WaitTimer(p, tbl, id) ==
    IF GetAttr(tbl, seq, id, "name").err # "ok" THEN Effect(<<>>, p, tbl, "AssertionError")
    ELSE IF p.task.st = "none" THEN Effect(<<Do("submit", id)>>, p, tbl, "ok")
    ELSE Effect(<<Do("cancel", 0), Do("submit", id)>>, p, tbl, "ok")

\* the rest of wait_timer: end_time is read, the wait submitted, and
\* add_done_callback calls finish_timer at once when the Future is done
Submit(p, tbl, id, sched) ==
    LET end == GetAttr(tbl, seq, id, "end_time") IN
    IF end.err # "ok" THEN Effect(<<>>, p, tbl, PyExc(end.err))
    ELSE LET done == /\ sched.fast
                     /\ end.ret.v <= Time(now).v
                     /\ Running(p) < MaxWorkers
             left == IF p.task.st \in {"pending", "running"}
                     THEN Append(p.orphans, p.task)
                     ELSE p.orphans
             q == [p EXCEPT !.orphans = left,
                            !.task = [st |-> IF done THEN "done" ELSE "pending",
                                      id |-> id, end |-> end.ret.v]]
         IN IF done
            THEN Effect(<<Do("finish_timer", id), Do("callback", 0)>>, q, tbl, "ok")
            ELSE Effect(<<>>, q, tbl, "ok")

\* finish_timer(timer_id) on the thread of the manager: ValueError for a
\* missing timer, the assertion on end_time, mark_timer_finished,
\* new_tracking_task, _notify("finished", timer_id).  (The frame of the
\* _notify keeps the self.task that mark_timer_finished left, for px.finpub.)
FinishTimer(p, tbl, id) ==
    IF GetAttr(tbl, seq, id, "name").err # "ok" THEN Effect(<<>>, p, tbl, "ValueError")
    ELSE IF ~(GetAttr(tbl, seq, id, "end_time").ret.v < Time(now).v)
    THEN Effect(<<>>, p, tbl, "AssertionError")
    ELSE Effect(<<Do("new_tracking_task", 0), Frame("publish", <<p.task>>, "none", id, FALSE)>>,
                p,
                IF GetAttr(tbl, seq, id, "status").ret = FINISHED THEN tbl
                ELSE SetAttr(tbl, seq, id, "status", FINISHED).tbl,
                "ok")

\* TimerManagerProxy._handle_event(event, timer_id).  On "created" it binds
\* the tuple self.the_closest_timers as an id, which sqlite3 refuses; on the
\* loop's thread sqlite3 refuses the manager's connection
HandleEvent(p, tbl, event, id, sched) ==
    CASE event = "created" -> Effect(<<>>, p, tbl, "ProgrammingError")
      [] event = "deleted" /\ (\A i \in DOMAIN p.closest : p.closest[i] # id) ->
             Effect(<<>>, p, tbl, "ok")
      [] event \in {"deleted", "finished"} ->
             IF sched.thread # "main" THEN Effect(<<>>, p, tbl, "ProgrammingError")
             ELSE Effect(<<Do("new_tracking_task", 0)>>, p, tbl, "ok")
      [] OTHER -> Effect(<<>>, p, tbl, "ok")

\* TimerWatcher._handle_event(event, timer_id): _schedule_watch or
\* _cancel_watch
WatcherHandleEvent(p, event, id) ==
    IF event \in {"created", "resumed"}
    THEN IF id \in p.tasks \/ id \notin DOMAIN p.coro THEN p
         ELSE [p EXCEPT !.tasks = @ \cup {id},
                        !.coro[id] = [st |-> "ready", wake |-> 0]]
    ELSE IF id \notin p.tasks THEN p
    ELSE IF p.coro[id].st # "none"
    THEN [p EXCEPT !.tasks = @ \ {id}, !.coro[id] = NoCoro]
    ELSE [p EXCEPT !.tasks = @ \ {id},
                   !.cancelled = @ \/ (tpc[LoopThread] # "idle" /\ loc[LoopThread].id = id)]

\* the watcher's callback: _schedule_watch raises RuntimeError ("Event loop
\* is closed") from run_coroutine_threadsafe once stop() has closed the loop
WatcherCallbackOpenLoop(p, tbl, rest, event, id) ==
    Effect(<<rest>>, WatcherHandleEvent(p, event, id), tbl, "ok")
WatcherCallback(p, tbl, rest, event, id) ==
    IF p.loop = "closed" /\ event \in {"created", "resumed"} /\ id \notin p.tasks
    THEN Effect(<<rest>>, p, tbl, "RuntimeError")
    ELSE Effect(<<rest>>, WatcherHandleEvent(p, event, id), tbl, "ok")

\* _notify(event, timer_id): cb(event, timer_id) for the next callback of
\* list(self._callbacks), then the rest of the list
Notify(p, tbl, cbs, event, id, top, sched) ==
    IF cbs = <<>> THEN Effect(<<>>, p, tbl, "ok")
    ELSE LET cb == Head(cbs)
             rest == Frame("_notify", Tail(cbs), event, id, top)
             q == IF sched.thread = "main"
                  THEN [p EXCEPT !.log = Append(@, <<cb, event, id, top>>)]
                  ELSE p
         IN CASE cb = "_handle_event" ->
                     Effect(<<Frame("_handle_event", <<>>, event, id, top), rest>>,
                            q, tbl, "ok")
              [] cb = "watcher" -> WatcherCallback(q, tbl, rest, event, id)
              [] OTHER -> Effect(<<rest>>, q, tbl, "ok")

\* the activation frame f stands for
Step(f, p, tbl, sched) ==
    CASE f.at = "_notify" -> Notify(p, tbl, f.cbs, f.event, f.id, f.top, sched)
      [] f.at = "_handle_event" -> HandleEvent(p, tbl, f.event, f.id, sched)
      [] f.at = "new_tracking_task" -> NewTrackingTask(p, tbl, sched)
      [] f.at = "wait_timer" -> WaitTimer(p, tbl, f.id)
      [] f.at = "cancel" -> Cancel(p, tbl)
      [] f.at = "submit" -> Submit(p, tbl, f.id, sched)
      [] f.at = "finish_timer" -> FinishTimer(p, tbl, f.id)
      [] f.at = "publish" ->
             Effect(<<Frame("_notify", p.callbacks, "finished", f.id, FALSE)>>,
                    [p EXCEPT !.finpub = Append(@, <<"finish_timer", f.id,
                                                     p.task # f.cbs[1]>>)],
                    tbl, "ok")
      [] f.at = "task_none" -> Effect(<<>>, [p EXCEPT !.task = NoTask], tbl, "ok")
      [] OTHER -> Effect(<<>>, p, tbl, "ok")

\* an exception on its way out of frame f: the done callback of a Future
\* logs it, the _notify of main.py passes over it and goes on, and every
\* other frame, the _notify of timer_manager.py too, lets it out
Raised(f, p, tbl, err) ==
    IF f.at = "callback" THEN Effect(<<>>, p, tbl, "ok")
    ELSE IF f.at = "_notify" /\ p.kind = "main" THEN Effect(<<f>>, p, tbl, "ok")
    ELSE Effect(<<>>, p, tbl, err)

\* the frames run to the end, the effect of each step taken once
RECURSIVE Run(_, _, _, _, _)
Run(frames, p, tbl, err, sched) ==
    IF frames = <<>> THEN Effect(<<>>, p, tbl, err)
    ELSE CHOOSE end \in
             {Run(e.push \o Tail(frames), e.p, e.tbl, e.err, sched) :
                  e \in {IF err # "ok" THEN Raised(Head(frames), p, tbl, err)
                         ELSE Step(Head(frames), p, tbl, sched)}} : TRUE

\* self._notify(event, timer_id) with all that the callbacks do
Publish(p, tbl, event, id, sched) ==
    Run(<<Frame("_notify", p.callbacks, event, id, TRUE)>>, p, tbl, "ok", sched)

\* the calls made through the proxy and the event each publishes
ProxyOps == {"pause_timer", "resume_timer", "rm_timer", "mark_timer_finished"}
EventOf(op) ==
    CASE op = "create_timer" -> "created"
      [] op = "pause_timer" -> "paused"
      [] op = "resume_timer" -> "resumed"
      [] op = "rm_timer" -> "deleted"
      [] OTHER -> "finished"

\* a call of the proxy begins with the call of the manager
Begin(op, id) ==
    [px EXCEPT !.phase = "manager", !.log = <<>>,
               !.call = [op |-> op, id |-> id, event |-> "none", err |-> "none",
                         ret |-> PyNone]]

\* proxy.create_timer(name, duration): self._manager.create_timer
ProxyCreate(name, duration) ==
    /\ px.phase = "idle"
    /\ CreateTimer(Caller, name, duration)
    /\ px' = Begin("create_timer", 0)

\* proxy.pause_timer, resume_timer, rm_timer, mark_timer_finished: the call
\* of the manager, and its statements
ProxyCall(op, id) ==
    /\ px.phase = "idle"
    /\ CallOp(Caller, op, id)
    /\ px' = Begin(op, id)

ManagerStep ==
    /\ px.phase = "manager"
    /\ TimerStep(Caller)
    /\ UNCHANGED px

\* the manager has returned: its exception is the call's, else
\* self._notify(event, timer_id) and the return
ProxyNotify ==
    /\ px.phase = "manager"
    /\ tpc[Caller] = "idle"
    /\ LET l == loc[Caller]
           id == IF l.op # "create_timer" THEN l.id ELSE IF l.err = "ok" THEN l.ret ELSE 0
           done(p, event, err) ==
               [p EXCEPT !.phase = "idle",
                         !.call = [op |-> l.op, id |-> id, event |-> event, err |-> err,
                                   ret |-> IF err # "ok" THEN PyNone
                                           ELSE IF l.op = "create_timer" THEN PyInt(l.ret)
                                           ELSE l.ret]]
       IN IF l.err # "ok"
          THEN px' = done(px, "none", l.err) /\ UNCHANGED table
          ELSE \E sched \in Scheds("main") :
                   \E w \in {Publish(px, table, EventOf(l.op), id, sched)} :
                       /\ px' = done(w.p, EventOf(l.op), w.err)
                       /\ table' = w.tbl
    /\ loc' = [loc EXCEPT ![Caller] = NoCall]
    /\ UNCHANGED <<schema, seq, written, returned, removed, last, concVars,
                   now, tpc, calls>>

\* proxy.add_callback(callback)
AddCallback(cb) ==
    /\ px.phase = "idle"
    /\ calls < MaxCalls
    /\ calls' = calls + 1
    /\ \A i \in DOMAIN px.callbacks : px.callbacks[i] # cb
    /\ px' = [px EXCEPT !.callbacks = Append(@, cb)]
    /\ UNCHANGED <<storeVars, concVars, now, tpc, loc>>

\* TimerWatcher(proxy, on_finished): add_callback(self._handle_event), then
\* _schedule_watch for every timer find_item({"status": RUNNING}) returns
WatcherInit ==
    /\ px.phase = "idle"
    /\ calls < MaxCalls
    /\ calls' = calls + 1
    /\ \A i \in DOMAIN px.callbacks : px.callbacks[i] # "watcher"
    /\ LET found == Range(FindItem(table, seq, RunningFilter).ret)
       IN px' = [px EXCEPT !.callbacks = Append(@, "watcher"),
                           !.tasks = found,
                           !.coro = [id \in DOMAIN @ |->
                                        IF id \in found THEN [st |-> "ready", wake |-> 0]
                                        ELSE NoCoro]]
    /\ UNCHANGED <<storeVars, concVars, now, tpc, loc>>

\* watcher.stop(): _cancel_watch for every task of the map, the loop is
\* told to stop, and self._thread.join() waits for it
WatcherStop ==
    /\ px.phase = "idle"
    /\ px.loop = "running"
    /\ \E i \in DOMAIN px.callbacks : px.callbacks[i] = "watcher"
    /\ calls < MaxCalls
    /\ calls' = calls + 1
    /\ px' = [px EXCEPT !.phase = "stopping",
                        !.loop = "stopping",
                        !.tasks = {},
                        !.coro = [id \in DOMAIN @ |-> NoCoro],
                        !.cancelled = @ \/ tpc[LoopThread] # "idle"]
    /\ UNCHANGED <<storeVars, concVars, now, tpc, loc>>

\* the loop has run the coroutine it was in up to its await or its end and
\* stops: join returns, self._loop.close(), and stop() returns
WatcherStopped ==
    /\ px.phase = "stopping"
    /\ tpc[LoopThread] = "idle"
    /\ px' = [px EXCEPT !.phase = "idle", !.loop = "closed"]
    /\ UNCHANGED <<storeVars, concVars, now, tpc, loc, calls>>

\* a worker of the pool begins a wait: waiting_task()
PoolStart ==
    /\ Running(px) < MaxWorkers
    /\ \/ /\ px.task.st = "pending"
          /\ px' = [px EXCEPT !.task.st = "running"]
       \/ \E i \in DOMAIN px.orphans :
              /\ px.orphans[i].st = "pending"
              /\ px' = [px EXCEPT !.orphans[i].st = "running"]
    /\ UNCHANGED <<storeVars, concVars, now, tpc, loc, calls>>

\* the wait is over: end_time - time.time() <= 0.  The done callback runs on
\* the worker, where finish_timer raises ProgrammingError at its first read
PoolDone ==
    /\ \/ /\ px.task.st = "running"
          /\ px.task.end <= Time(now).v
          /\ px' = [px EXCEPT !.task.st = "done"]
       \/ \E i \in DOMAIN px.orphans :
              /\ px.orphans[i].st = "running"
              /\ px.orphans[i].end <= Time(now).v
              /\ px' = [px EXCEPT !.orphans =
                           [j \in 1..(Len(@) - 1) |-> IF j < i THEN @[j] ELSE @[j + 1]]]
    /\ UNCHANGED <<storeVars, concVars, now, tpc, loc, calls>>

\* the event loop runs a coroutine of _wait_for_timer: a new one from its
\* head, a sleeping one whose delay is over from the re-check
LoopRun(id) ==
    /\ px.loop = "running"
    /\ tpc[LoopThread] = "idle"
    /\ \/ px.coro[id].st = "ready"
       \/ px.coro[id].st = "sleeping" /\ px.coro[id].wake <= Time(now).v
    /\ tpc' = [tpc EXCEPT ![LoopThread] =
                  IF px.coro[id].st = "ready" THEN "watch_status" ELSE "woke_status"]
    /\ loc' = [loc EXCEPT ![LoopThread] = [NoCall EXCEPT !.op = "watch", !.id = id]]
    /\ px' = [px EXCEPT !.coro[id] = NoCoro, !.cancelled = FALSE]
    /\ UNCHANGED <<storeVars, concVars, now, calls>>

\* the reads of the coroutine on the watcher's connection
LoopStep ==
    /\ \/ WatchReadStatus(LoopThread)
       \/ WatchReadEnd(LoopThread)
       \/ WatchRecheckEnd(LoopThread)
    /\ UNCHANGED px

\* await asyncio.sleep(delay): the coroutine leaves the loop to the others,
\* or ends with CancelledError when _cancel_watch cancelled it
LoopSleep ==
    /\ tpc[LoopThread] = "watch_sleep"
    /\ px' = IF px.cancelled THEN [px EXCEPT !.cancelled = FALSE]
             ELSE [px EXCEPT !.coro[loc[LoopThread].id] =
                                 [st |-> "sleeping", wake |-> loc[LoopThread].wake]]
    /\ Return(LoopThread, "ok", PyNone)
    /\ UNCHANGED <<storeVars, concVars, now, calls>>

\* set_attr(timer_id, "status", FINISHED), self._proxy._notify("finished",
\* timer_id) on the loop's thread, self._on_finished(timer_id)
LoopFinish ==
    /\ WatchFinish(LoopThread)
    /\ IF loc'[LoopThread].err # "ok" THEN UNCHANGED px
       ELSE LET id == loc[LoopThread].id IN
            \E sched \in Scheds("loop") :
                \E w \in {Publish([px EXCEPT !.finpub = Append(@, <<"watcher", id>>)],
                                  table', "finished", id, sched)} :
                    px' = IF w.err # "ok" THEN w.p
                          ELSE [w.p EXCEPT !.fired = Append(@, id)]

NextProxy ==
    \/ Tick /\ UNCHANGED px
    \/ \E duration \in 0..1 : ProxyCreate(NameOfLen(1), PyInt(duration))
    \/ \E op \in ProxyOps, id \in 1..MaxTimers : ProxyCall(op, id)
    \/ ManagerStep
    \/ ProxyNotify
    \/ \E cb \in UserCallbacks : AddCallback(cb)
    \/ WatcherInit
    \/ WatcherStop
    \/ WatcherStopped
    \/ PoolStart
    \/ PoolDone
    \/ \E id \in 1..MaxTimers : LoopRun(id)
    \/ LoopStep
    \/ LoopSleep
    \/ LoopFinish
SpecProxy == InitProxy /\ [][NextProxy]_vars

\* The clock advances, the workers of the pool and the event loop run, and a
\* call that has begun runs to its return; whether and when the user makes a
\* call is left open.  Every step advances the clock, a call or a wait
\* and none leads back to an earlier state, so the fairness of each of these
\* steps is the fairness of them all.
Runs ==
    \/ Tick /\ UNCHANGED px
    \/ ManagerStep
    \/ ProxyNotify
    \/ WatcherStopped
    \/ PoolStart
    \/ PoolDone
    \/ \E id \in 1..MaxTimers : LoopRun(id)
    \/ LoopStep
    \/ LoopSleep
    \/ LoopFinish
liveVars == <<now, tpc, px>>
SpecProxyLive == SpecProxy /\ WF_liveVars(Runs)

(***************************************************************************)
(* Claims about the record store, checked under Spec.                      *)
(***************************************************************************)
LiveIds == Range(returned) \ removed

\* a value json.dumps and json.loads give back as it was: every dict key is a
\* string
JsonFaithful(value) ==
    value.t = "dict" => \A i \in DOMAIN value.v : value.v[i][1].t = "str"

C4_FindAllIsLiveIds ==
    LET out == FindItem(table, seq, <<>>) IN
    /\ out.err = "ok"
    /\ Range(out.ret) = LiveIds
    /\ Len(out.ret) = Cardinality(LiveIds)

\* find_item() has just returned the remaining ids after a removal
C4_Witness ==
    /\ last.op = "find_item" /\ last.err = "ok"
    /\ removed # {}
    /\ Len(last.ret) > 0
    /\ Range(last.ret) = LiveIds

\* C5: the ids add_item returned are positive and strictly increasing, so no
\* id is assigned twice, also after its record was removed.
C5_IdsIncrease ==
    \A i \in DOMAIN returned :
        /\ returned[i] > 0
        /\ i > 1 => returned[i] > returned[i - 1]

\* add_item has just assigned an id after every earlier record, the one with
\* the highest id included, had been removed
C5_Witness ==
    /\ last.op = "add_item" /\ last.err = "ok"
    /\ removed # {}
    /\ DOMAIN table = {last.ret}

\* C6: for an id whose record was removed, or that was never assigned,
\* get_attr, set_attr and rm_item fail with the not-found error and leave
\* the table as it is.
C6_MissingIdNotFound ==
    \A id \in Ids \ LiveIds :
        /\ \A attr \in DOMAIN schema :
               /\ GetAttr(table, seq, id, attr).err = "NotFound"
               /\ \A value \in ValuesOf(attr) :
                      LET out == SetAttr(table, seq, id, attr, value) IN
                      out.err = "NotFound" /\ out.tbl = table
        /\ LET out == RmItem(table, seq, id) IN
           out.err = "NotFound" /\ out.tbl = table

\* a call on a removed id has just failed with the not-found error while
\* another record is in the table
C6_Witness ==
    /\ last.op \in {"get_attr", "set_attr", "rm_item"}
    /\ last.err = "NotFound"
    /\ last.id \in removed
    /\ DOMAIN table # {}

\* C7: add_item with a key set other than the schema's fails with the schema
\* mismatch error and adds no row.
C7_KeySetMismatchRejected ==
    \A attr_dict \in OtherRecords :
        LET out == AddItem(table, seq, attr_dict) IN
        /\ out.err = "SchemaMismatch"
        /\ out.tbl = table
        /\ out.sq = seq

\* add_item has just failed with the schema mismatch error on a table that
\* holds a record
C7_Witness ==
    /\ last.op = "add_item" /\ last.err = "SchemaMismatch"
    /\ DOMAIN table # {}
    /\ DOMAIN table = LiveIds

\* C8 as stated: set_attr on a record fails with UnknownAttribute for an
\* attribute outside the schema and with TypeMismatch for a value of any
\* supported type other than the declared one, and leaves the table as it is.
C8_WrongTypeRejected ==
    \A id \in LiveIds : \A attr \in AttrNames : \A value \in Values \ {PyNone} :
        LET out == SetAttr(table, seq, id, attr, value) IN
        /\ attr \notin DOMAIN schema => out.err = "UnknownAttribute" /\ out.tbl = table
        /\ (attr \in DOMAIN schema /\ value.t # schema[attr]) =>
               out.err = "TypeMismatch" /\ out.tbl = table

\* the cell a value of the declared type is stored as
StoredAs(attr, value) == Bind(EncodeValue(attr, value).ret)

\* every item names a declared attribute and gives a value of its type
WellTyped(items) ==
    \A i \in DOMAIN items :
        items[i][1] \in DOMAIN schema /\ items[i][2].t = schema[items[i][1]]

\* the records whose last written values equal, in their stored encoding,
\* every value of the filter
Matching(items) ==
    {id \in LiveIds :
        \A i \in DOMAIN items :
            StoredAs(items[i][1], written[id][items[i][1]])
                = StoredAs(items[i][1], items[i][2])}

\* C9: find_item returns exactly the ids of the records that equal the
\* filter on every attribute it names, compared in the stored encoding;
\* a filter naming an attribute outside the schema fails with
\* UnknownAttribute.
C9_FindMatchesFilter ==
    \A items \in Filters :
        LET out == FindItem(table, seq, items) IN
        /\ WellTyped(items) =>
               /\ out.err = "ok"
               /\ Range(out.ret) = Matching(items)
               /\ Len(out.ret) = Cardinality(Matching(items))
        /\ (/\ \E i \in DOMAIN items : items[i][1] \notin DOMAIN schema
            /\ \A i \in DOMAIN items :
                   items[i][1] \in DOMAIN schema => items[i][2].t = schema[items[i][1]])
               => out.err = "UnknownAttribute"

\* find_item has just returned some but not all of the records
C9_Witness ==
    /\ last.op = "find_item" /\ last.err = "ok"
    /\ Len(last.ret) > 0
    /\ Len(last.ret) < Cardinality(DOMAIN table)

(***************************************************************************)
(* Claims about top_n_by_attr, checked under SpecTopN.                     *)
(***************************************************************************)
\* what a record ranks by: the value of an integer or real attribute, the
\* length of the stored text of a text, list or dict attribute
RankOf(id, attr) ==
    LET value == written[id][attr] IN
    CASE value.t \in {"int", "float"} -> value.v
      [] value.t = "bool" -> IF value.v THEN 1 ELSE 0
      [] value.t = "str" -> Len(value.v)
      [] OTHER -> Len(JsonDumps(value))

\* a ranks strictly before b in the requested direction
Before(a, b, attr, largest) ==
    IF largest THEN RankOf(a, attr) > RankOf(b, attr)
    ELSE RankOf(a, attr) < RankOf(b, attr)

\* C10: for a count n >= 0, a sortable attribute and a filter, whatever tuple
\* top_n_by_attr returns holds min(n, number of matching records) ids, each
\* once, all matching the filter, in rank order (descending when largest),
\* and no matching record left out ranks strictly before a returned one.
C10_TopNOrdered ==
    \A call \in TopCalls :
        LET attr == call[1]
            n == call[2]
            largest == call[3]
            items == call[4]
            out == TopNByAttr(table, seq, attr, n, largest, items)
        IN (/\ attr \in DOMAIN schema
            /\ schema[attr] # "bool"
            /\ n >= 0
            /\ WellTyped(items)) =>
               /\ out.err = "ok"
               /\ out.ret # {}
               /\ \A ret \in out.ret :
                      /\ Len(ret) = Min(n, Cardinality(Matching(items)))
                      /\ Cardinality(Range(ret)) = Len(ret)
                      /\ Range(ret) \subseteq Matching(items)
                      /\ \A i, j \in DOMAIN ret :
                             i < j => ~Before(ret[j], ret[i], attr, largest)
                      /\ \A id \in Matching(items) \ Range(ret) :
                             \A i \in DOMAIN ret : ~Before(id, ret[i], attr, largest)

\* top_n_by_attr has just returned one of two records and left out the other,
\* which ranks differently
C10_Witness ==
    /\ last.op = "top_n_by_attr" /\ last.err = "ok"
    /\ Len(last.ret) = 1
    /\ Cardinality(LiveIds) = 2
    /\ \E attr \in DOMAIN schema : \E id \in LiveIds \ Range(last.ret) :
           RankOf(id, attr) # RankOf(last.ret[1], attr)

(***************************************************************************)
(* Claims about concurrent writers, checked under SpecConc.                *)
(***************************************************************************)
AllReturned == \A c \in Conns : pc[c] = "done" /\ result[c].err = "ok"

\* C1 as stated: when every connection's add_item has returned successfully
\* the table holds exactly as many rows as there were calls, with distinct
\* ids.
C1_ConcurrentInsertsExact ==
    AllReturned =>
        /\ Cardinality(dbRows) = NConns
        /\ Cardinality({r.id : r \in dbRows}) = NConns

\* the messages that count as transient for a write
TransientMessages == {"database is locked", "database is busy", "disk i/o error"}

\* C2: a call makes at most max_tries + 1 attempts; a call that returned
\* successfully has its row, under the returned id, committed, and failed on
\* fewer attempts than it made; a call that ended with a transient error
\* failed on all max_tries + 1 attempts; only transient errors are retried,
\* any other ends the call with that error.
C2_RetryBudget ==
    \A c \in Conns :
        /\ attempts[c] <= MaxTries + 1
        /\ failures[c] \subseteq TransientMessages
        /\ pc[c] = "done" =>
               /\ result[c].err = "ok" =>
                      /\ [id |-> result[c].ret, by |-> c] \in dbRows
                      /\ attempts[c] = tries[c] + 1
               /\ result[c].err \in TransientMessages =>
                      /\ tries[c] = MaxTries
                      /\ attempts[c] = MaxTries + 1
               /\ result[c].err \notin TransientMessages \cup {"ok"} =>
                      /\ attempts[c] = tries[c] + 1
                      /\ pending[c] = <<>>

\* one call returned successfully after a transient failure, another gave up
\* with "database is locked" after max_tries + 1 attempts
C2_Witness ==
    \E c, d \in Conns :
        /\ pc[c] = "done" /\ result[c].err = "ok" /\ tries[c] >= 1
        /\ pc[d] = "done" /\ result[d].err = Locked /\ attempts[d] = MaxTries + 1

\* C11: top_n_by_attr raises UnsupportedSortType for a sort attribute declared
\* bool and UnknownAttribute for one the schema does not declare, whatever the
\* other arguments; it returns nothing and leaves the table as it was.
C11_SortAttributeRejected ==
    \A call \in TopCalls :
        (call[1] \in DOMAIN schema => schema[call[1]] = "bool") =>
            LET out == TopNByAttr(table, seq, call[1], call[2], call[3], call[4]) IN
            /\ out.err = IF call[1] \in DOMAIN schema THEN "UnsupportedSortType"
                         ELSE "UnknownAttribute"
            /\ out.ret = {}
            /\ out.tbl = table
            /\ out.sq = seq

\* top_n_by_attr was refused for a bool sort attribute on a table with a row
C11_Witness ==
    /\ last.op = "top_n_by_attr"
    /\ last.err = "UnsupportedSortType"
    /\ last.ret = <<>>
    /\ DOMAIN table # {}

(***************************************************************************)
(* Claims about TimerManager.  SpecTimerConc covers what other connections *)
(* can observe; SpecTimer covers the calls of one caller.                  *)
(***************************************************************************)
\* what get_attr gives any connection for a timer of the table
Seen(id, attr) == GetAttr(table, seq, id, attr).ret

\* C12 as stated: in every state any connection can observe, every timer
\* whose status is RUNNING has both timestamps set and
\* end_time - duration == start_time.
C12_RunningConsistent ==
    \A id \in DOMAIN table :
        Seen(id, "status") = RUNNING =>
            /\ Seen(id, "start_time") # NOT_SET
            /\ Seen(id, "end_time") # NOT_SET
            /\ Seen(id, "end_time").v - Seen(id, "duration").v = Seen(id, "start_time").v

\* C13 as stated: whenever no call is under way, every timer whose status is
\* PAUSED has start_time == NOT_SET, end_time == NOT_SET and duration >= 0,
\* also when pause_timer was called after the timer's end_time had passed.
C13_PausedConsistent ==
    (\A t \in Threads : tpc[t] = "idle") =>
        \A id \in DOMAIN table :
            Seen(id, "status") = PAUSED =>
                /\ Seen(id, "start_time") = NOT_SET
                /\ Seen(id, "end_time") = NOT_SET
                /\ Seen(id, "duration").v >= 0

\* the call the one caller made last, once it has returned
Done(op) == tpc[Caller] = "idle" /\ loc[Caller].op = op

\* the rows of the table other than id are as the call found them
OthersUnchanged(pre, id) ==
    /\ DOMAIN table \ {id} = DOMAIN pre \ {id}
    /\ \A i \in DOMAIN pre \ {id} : table[i] = pre[i]

\* C14: create_timer with a text name and an integer duration raises
\* ValueError and inserts nothing when duration <= 0, when the name is empty
\* or when it is longer than 100 characters; otherwise it inserts exactly one
\* timer, RUNNING, and returns its id.
C14_CreateValidates ==
    Done("create_timer") =>
        LET l == loc[Caller]
            name == l.arg[1]
            duration == l.arg[2]
        IN (name.t = "str" /\ duration.t = "int") =>
               IF duration.v <= 0 \/ Len(name.v) = 0 \/ Len(name.v) > 100
               THEN l.err = "ValueError" /\ table = l.pre
               ELSE /\ l.err = "ok"
                    /\ l.ret \notin DOMAIN l.pre
                    /\ DOMAIN table = DOMAIN l.pre \cup {l.ret}
                    /\ OthersUnchanged(l.pre, l.ret)
                    /\ Seen(l.ret, "status") = RUNNING
                    /\ Seen(l.ret, "name") = name

\* a second timer was created with a name of exactly 100 characters
C14_Witness ==
    /\ Done("create_timer")
    /\ loc[Caller].err = "ok"
    /\ Len(loc[Caller].arg[1].v) = 100
    /\ DOMAIN loc[Caller].pre # {}
    /\ Cardinality(DOMAIN table) = 2

\* what get_attr gave for a timer when the call began
Was(pre, id, attr) == GetAttr(pre, seq, id, attr).ret

\* C15: pause_timer returns normally only for a timer that was RUNNING and
\* resume_timer only for one that was PAUSED; for a timer in any other
\* status the call raises and leaves the table as it was.
C15_WrongStatusRejected ==
    \A op \in {"pause_timer", "resume_timer"} :
        (Done(op) /\ loc[Caller].id \in DOMAIN loc[Caller].pre) =>
            LET l == loc[Caller]
                required == IF op = "pause_timer" THEN RUNNING ELSE PAUSED
            IN /\ l.err = "ok" => Was(l.pre, l.id, "status") = required
               /\ Was(l.pre, l.id, "status") # required =>
                      l.err # "ok" /\ table = l.pre

\* pause_timer was refused for a FINISHED timer
C15_Witness ==
    /\ Done("pause_timer")
    /\ loc[Caller].id \in DOMAIN loc[Caller].pre
    /\ Was(loc[Caller].pre, loc[Caller].id, "status") = FINISHED
    /\ loc[Caller].err = "AssertionError"
    /\ table = loc[Caller].pre

\* C16 as stated: resume_timer on a PAUSED timer whose stored duration is
\* negative raises ValueError and leaves the timer as it was.
C16_NegativeDurationValueError ==
    (/\ Done("resume_timer")
     /\ loc[Caller].id \in DOMAIN loc[Caller].pre
     /\ Was(loc[Caller].pre, loc[Caller].id, "status") = PAUSED
     /\ Was(loc[Caller].pre, loc[Caller].id, "duration").v < 0) =>
        /\ loc[Caller].err = "ValueError"
        /\ table = loc[Caller].pre

C18_FinishedIsTerminal ==
    [][\A id \in DOMAIN table :
           Seen(id, "status") = FINISHED =>
               \/ id \notin DOMAIN table'
               \/ table'[id].status = table[id].status]_vars

\* the timers any connection sees as RUNNING
RunningIds == {id \in DOMAIN table : Seen(id, "status") = RUNNING}

\* C19: timers_about_finishing(k) raises ValueError for k <= 0; otherwise it
\* returns min(k, number of RUNNING timers) distinct ids of RUNNING timers in
\* ascending order of end_time, no RUNNING timer left out ending earlier than
\* a returned one.
C19_SoonestRunning ==
    Done("timers_about_finishing") =>
        LET l == loc[Caller]
            k == l.arg.v
            ret == l.ret
        IN IF k <= 0 THEN l.err = "ValueError"
           ELSE /\ l.err = "ok"
                /\ Len(ret) = Min(k, Cardinality(RunningIds))
                /\ Cardinality(Range(ret)) = Len(ret)
                /\ Range(ret) \subseteq RunningIds
                /\ \A i, j \in DOMAIN ret :
                       i < j => Seen(ret[i], "end_time").v <= Seen(ret[j], "end_time").v
                /\ \A id \in RunningIds \ Range(ret) : \A i \in DOMAIN ret :
                       Seen(ret[i], "end_time").v <= Seen(id, "end_time").v

\* of two timers, one PAUSED or FINISHED, timers_about_finishing(2) returned
\* the RUNNING one only
C19_Witness ==
    /\ Done("timers_about_finishing")
    /\ loc[Caller].err = "ok"
    /\ loc[Caller].arg.v = 2
    /\ Len(loc[Caller].ret) = 1
    /\ Cardinality(DOMAIN table) = 2

\* C20: for an id no timer has, pause_timer, resume_timer, rm_timer and
\* get_timer_info each raise and leave the table as it was;
\* mark_timer_finished, for such an id that is positive, is the one that
\* returns normally, and it too leaves the table as it was.
C20_MissingTimerRejected ==
    \A op \in TimerOps :
        (Done(op) /\ loc[Caller].id \notin DOMAIN loc[Caller].pre) =>
            /\ table = loc[Caller].pre
            /\ IF op = "mark_timer_finished" /\ loc[Caller].id >= 1
               THEN loc[Caller].err = "ok"
               ELSE loc[Caller].err \in {"AssertionError", "ValueError"}

\* rm_timer was refused for the id of a timer removed before
C20_Witness ==
    /\ Done("rm_timer")
    /\ loc[Caller].id \notin DOMAIN loc[Caller].pre
    /\ loc[Caller].id \in 1..seq
    /\ DOMAIN table # {}
    /\ loc[Caller].err = "AssertionError"

(***************************************************************************)
(* Claims on TimerManagerProxy and TimerWatcher (SpecProxy).               *)
(***************************************************************************)
\* the callbacks that were called with the caller's own event, in call order
Delivered(log) ==
    LET own == SelectSeq(log, LAMBDA entry : entry[4])
    IN [i \in DOMAIN own |-> own[i][1]]

\* C21: when a call of timer_manager.py's proxy has published its event, every
\* registered callback was called with it exactly once, in registration
\* order, and no exception of a callback reached the caller.
C21_NotifyEveryCallback ==
    (px.kind = "timer_manager" /\ px.phase = "idle" /\ px.call.event # "none") =>
        /\ Delivered(px.log) = px.callbacks
        /\ px.call.err = "ok"

\* C22: in timer_manager.py's proxy at most one wait is outstanding at any
\* instant (submitted to the pool and not yet finished sleeping): the wait
\* before it was cancelled when a new one was submitted.
C22_OneOutstandingWait ==
    px.kind = "timer_manager" => Outstanding(px) <= 1

\* the proxy watches the RUNNING timer of the smallest end_time and waits for
\* it, or watches nothing and has no wait when no timer is RUNNING
Converged ==
    IF RunningIds = {} THEN px.closest = <<>> /\ Outstanding(px) = 0
    ELSE /\ px.closest # <<>>
         /\ px.closest[1] \in RunningIds
         /\ \A id \in RunningIds :
                Seen(px.closest[1], "end_time").v <= Seen(id, "end_time").v
         /\ px.task.st \in {"pending", "running"}
         /\ px.task.id = px.closest[1]

\* C23: when create_timer, pause_timer, resume_timer or rm_timer of
\* timer_manager.py's proxy has published its event and the event is handled,
\* the proxy watches the RUNNING timer with the smallest end_time and its wait
\* is for that timer, or it has no watched timer and no wait if no timer is
\* RUNNING.
C23_WatchConverges ==
    [][(/\ px.kind = "timer_manager"
        /\ px.phase = "manager"
        /\ px'.phase = "idle"
        /\ px'.call.op \in {"create_timer", "pause_timer", "resume_timer", "rm_timer"}
        /\ px'.call.event # "none") => Converged']_px

\* C24: timer_manager.py's proxy finishes a timer at the end of a wait
\* (finish_timer marks it FINISHED and publishes its finished event) only if
\* the timer then exists, is RUNNING and its end_time is not after now; not
\* one that was paused, deleted or finished while the wait was outstanding.
C24_FinishOnlyEligible ==
    [][\A i \in DOMAIN px'.finpub :
           (i > Len(px.finpub) /\ px'.finpub[i][1] = "finish_timer") =>
               LET id == px'.finpub[i][2] IN
               /\ id \in DOMAIN table
               /\ Seen(id, "status") = RUNNING
               /\ Seen(id, "end_time").v <= Time(now).v]_px

\* a finished event for the timer was published
Published(id) == \E i \in DOMAIN px.finpub : px.finpub[i][2] = id
\* the timer is RUNNING and its end_time is one the clock goes past
RunsOut(id) ==
    /\ id \in RunningIds
    /\ Seen(id, "end_time").v < Time(Epoch + MaxTime).v
\* the timer was paused or deleted
Stopped(id) == id \notin DOMAIN table \/ Seen(id, "status") = PAUSED

\* C25: create_timer of timer_manager.py's proxy returns the id of the timer
\* it created, and every timer so created is, unless it is paused or
\* deleted, eventually marked FINISHED with a finished event published for it.
C25_CreatedTimerFinishes ==
    /\ [](/\ px.kind = "timer_manager"
          /\ px.phase = "idle"
          /\ px.call.op = "create_timer"
          /\ px.call.event = "created"
          => px.call.err = "ok" /\ px.call.ret = PyInt(px.call.id))
    /\ \A id \in 1..MaxTimers :
           (px.kind = "timer_manager" /\ RunsOut(id)) ~>
               \/ Stopped(id)
               \/ Seen(id, "status") = FINISHED /\ Published(id)

\* the step in which the watcher's coroutine for the timer sets it FINISHED,
\* publishes its finished event and goes on to on_finished
WatcherFinishes(id) ==
    /\ tpc[LoopThread] = "watch_finish"
    /\ loc[LoopThread].id = id
    /\ Len(px'.finpub) > Len(px.finpub)

\* C26: a TimerWatcher does not finish a timer (status FINISHED, on_finished)
\* while the timer is PAUSED, and finishes a timer that has an end_time, the
\* one computed at resume_timer for a resumed timer, only once now >= that
\* end_time.
C26_PausedTimerNotFinished ==
    [][\A id \in 1..MaxTimers :
           WatcherFinishes(id) =>
               /\ Seen(id, "status") # PAUSED
               /\ Seen(id, "end_time") # NOT_SET =>
                      Seen(id, "end_time").v <= Time(now).v]_px

\* the timer was created and its row has been deleted
Deleted(id) == id \in 1..seq /\ id \notin DOMAIN table

Watching == \E i \in DOMAIN px.callbacks : px.callbacks[i] = "watcher"
\* the user finishes the timer by hand
UserFinishes(id) == px.call.op = "mark_timer_finished" /\ px.call.id = id
\* on_finished was invoked with the id
Fired(id) == \E i \in DOMAIN px.fired : px.fired[i] = id

\* C28: with a TimerWatcher subscribed to the proxy, every RUNNING timer is,
\* unless it is paused, deleted or finished by the user, eventually set to
\* FINISHED in the store with a finished event published for it and
\* on_finished invoked with its id.
C28_WatchedTimerFinishes ==
    \A id \in 1..MaxTimers :
        (Watching /\ RunsOut(id)) ~>
            \/ Stopped(id)
            \/ UserFinishes(id)
            \/ Seen(id, "status") = FINISHED /\ Published(id) /\ Fired(id)

\* C29: at the moment a TimerWatcher sets a timer FINISHED and publishes its
\* finished event, the timer's status is RUNNING, its end_time is set (not
\* NOT_SET) and now >= end_time: no finished event before the deadline.
C29_FinishedNotBeforeDeadline ==
    [][\A id \in 1..MaxTimers :
           WatcherFinishes(id) =>
               /\ Seen(id, "status") = RUNNING
               /\ Seen(id, "end_time") # NOT_SET
               /\ Seen(id, "end_time").v <= Time(now).v]_px

\* the timer is RUNNING and the clock reaches its end_time
ComesDue(id) ==
    /\ id \in RunningIds
    /\ Seen(id, "end_time").v <= Time(Epoch + MaxTime).v
\* finished events were published for both timers, for a before b, and
\* on_finished was invoked for both, for a before b
InOrder(a, b) ==
    /\ \E i, j \in DOMAIN px.finpub :
           i < j /\ px.finpub[i][2] = a /\ px.finpub[j][2] = b
    /\ \E i, j \in DOMAIN px.fired :
           i < j /\ px.fired[i] = a /\ px.fired[j] = b

\* C30: with a TimerWatcher subscribed to timer_manager.py's proxy, of two
\* RUNNING timers with different end_times that are neither paused, deleted
\* nor finished by the user, the finished event and the on_finished call of
\* the one with the earlier end_time come before those of the other.
C30_EarlierTimerFirst ==
    \A a, b \in 1..MaxTimers :
        (/\ px.kind = "timer_manager"
         /\ Watching
         /\ ComesDue(a)
         /\ ComesDue(b)
         /\ Seen(a, "end_time").v < Seen(b, "end_time").v) ~>
            \/ Stopped(a) \/ Stopped(b)
            \/ UserFinishes(a) \/ UserFinishes(b)
            \/ InOrder(a, b)

\* C31: after TimerWatcher.stop() has returned no watch task remains (the
\* task map is empty, no coroutine waits or runs) and the watcher never again
\* sets a timer FINISHED, publishes a finished event or invokes on_finished.
C31_StoppedWatcherIsSilent ==
    [][px.loop = "closed" =>
           /\ px'.tasks = {}
           /\ \A id \in DOMAIN px'.coro : px'.coro[id] = NoCoro
           /\ tpc'[LoopThread] = "idle"
           /\ px'.fired = px.fired
           /\ \A i \in DOMAIN px'.finpub :
                  i > Len(px.finpub) => px'.finpub[i][1] # "watcher"]_liveVars

\* stop() has returned, a timer created after it is RUNNING and its end_time
\* has passed
C31_Witness ==
    /\ px.loop = "closed"
    /\ px.phase = "idle"
    /\ px.call.op = "create_timer"
    /\ px.call.event = "created"
    /\ px.call.id \in RunningIds
    /\ Seen(px.call.id, "end_time").v <= Time(now).v

\* the readings time.time() can have given during a call that has returned
ClockReadings == {Time(t).v : t \in Epoch..now}

\* what C32 says of the timer a call has just returned from
AfterCall ==
    LET l == loc[Caller] IN
    /\ (Done("create_timer") /\ l.err = "ok") =>
           /\ Seen(l.ret, "status") = RUNNING
           /\ Seen(l.ret, "duration") = FloatOf(l.arg[2])
           /\ Seen(l.ret, "end_time").v - Seen(l.ret, "duration").v
                  = Seen(l.ret, "start_time").v
    /\ (Done("pause_timer") /\ l.err = "ok") =>
           /\ Seen(l.id, "status") = PAUSED
           /\ Seen(l.id, "start_time") = NOT_SET
           /\ Seen(l.id, "end_time") = NOT_SET
           /\ \E t \in ClockReadings :
                  Seen(l.id, "duration").v = Was(l.pre, l.id, "end_time").v - t
    /\ (Done("resume_timer") /\ l.err = "ok") =>
           /\ Seen(l.id, "status") = RUNNING
           /\ Seen(l.id, "start_time").v \in ClockReadings
           /\ Seen(l.id, "end_time").v
                  = Seen(l.id, "start_time").v + Was(l.pre, l.id, "duration").v

\* C32: in sequential use, right after create_timer(name, d) the timer is
\* RUNNING with duration == d and end_time - duration == start_time; right
\* after pause_timer at time t it is PAUSED with start_time == end_time ==
\* NOT_SET and duration == (its end_time before) - t, t being the clock when
\* pause_timer stores the duration; right after resume_timer at time t' it is
\* RUNNING with start_time == t' and end_time == t' + (its duration while
\* paused).
C32_RemainingTimePreserved ==
    /\ []AfterCall
    /\ [][(tpc[Caller] = "pause_duration" /\ tpc'[Caller] = "pause_start") =>
              table'[loc[Caller].id].duration.v
                  = Was(loc[Caller].pre, loc[Caller].id, "end_time").v - Time(now).v
         ]_<<tpc, table>>

\* a timer of two seconds, paused with one second left, was resumed later
C32_Witness ==
    /\ Done("resume_timer")
    /\ loc[Caller].err = "ok"
    /\ Was(loc[Caller].pre, loc[Caller].id, "duration") = Time(1)
    /\ Seen(loc[Caller].id, "start_time") = Time(Epoch + MaxTime)

(***************************************************************************)
(* C33: for a database file, at most one opener at a time stands between   *)
(* taking and releasing the lock on '.initlock', where the tables, the     *)
(* metadata row and the index are created; an opener that returned or      *)
(* raised holds neither the lock nor the descriptor; an opener of an       *)
(* in-memory database never holds them; and every opener that began comes  *)
(* to return or raise.                                                     *)
(***************************************************************************)
Creating == {c \in Openers : opener[c].pc \in InsideTry \cup {"finally"}}
Finished(c) == opener[c].pc \in {"returned", "raised"}
OneCreator ==
    /\ Cardinality(Creating) <= 1
    /\ \A c \in Creating : initlock = c /\ opener[c].path = "file"
ReleasedOnExit ==
    \A c \in Openers : Finished(c) => initlock # c /\ ~opener[c].lockfd
MemoryTakesNoLock ==
    \A c \in Openers : opener[c].path = "memory" => initlock # c /\ ~opener[c].lockfd
C33_InitSerialized ==
    /\ [](OneCreator /\ ReleasedOnExit /\ MemoryTakesNoLock)
    /\ \A c \in Openers : (opener[c].pc # "idle") ~> Finished(c)
C33_Witness ==
    /\ \E c \in Openers : opener[c].path = "file" /\ opener[c].pc = "raised"
                          /\ opener[c].err = "OperationalError"
    /\ \E c \in Openers : opener[c].path = "file" /\ opener[c].pc = "create_index"
    /\ \E c \in Openers : opener[c].path = "memory" /\ opener[c].pc = "returned"
    /\ objects = {"items", "dm_meta", "dm_meta[1]"}

\* the store as the manager's call left it shows the change the event names
Changed(op, pre, id) ==
    CASE op = "create_timer" -> id \in DOMAIN table /\ id \notin DOMAIN pre
      [] op = "pause_timer" -> Was(pre, id, "status") = RUNNING /\ Seen(id, "status") = PAUSED
      [] op = "resume_timer" -> Was(pre, id, "status") = PAUSED /\ Seen(id, "status") = RUNNING
      [] op = "rm_timer" -> id \in DOMAIN pre /\ id \notin DOMAIN table
      [] OTHER -> /\ id \in DOMAIN pre
                  /\ id \in DOMAIN table
                  /\ Was(pre, id, "status") # FINISHED
                  /\ Seen(id, "status") = FINISHED

\* C34: a call of timer_manager.py's proxy publishes an event only for a
\* change that happened: when the manager's create, pause, resume or rm
\* returned, the one event of the matching kind with the affected id, after
\* the store was changed; when it raised, no event; and a finished event only
\* when that call changed the timer's status to FINISHED.
C34_EventsMatchChanges ==
    [][(px.kind = "timer_manager" /\ px.phase = "manager" /\ px'.phase = "idle") =>
           LET l == loc[Caller]
               c == px'.call
           IN  /\ l.err # "ok" => c.event = "none" /\ px'.log = <<>>
               /\ l.err = "ok" =>
                      /\ c.event = EventOf(l.op)
                      /\ \A i \in DOMAIN px'.log :
                             px'.log[i][4] => px'.log[i][2] = c.event /\ px'.log[i][3] = c.id
                      /\ Changed(l.op, l.pre, c.id)
      ]_px

\* C35: finish_timer of timer_manager.py sets the status FINISHED, then
\* publishes the finished event, and only then re-arms the watch: when the
\* event is published the timer's status is FINISHED and self.task is the
\* one finish_timer found.
C35_FinishThenPublishThenRearm ==
    [][\A i \in DOMAIN px'.finpub :
           (i > Len(px.finpub) /\ px'.finpub[i][1] = "finish_timer") =>
               LET id == px'.finpub[i][2] IN
               /\ id \in DOMAIN table' => Was(table', id, "status") = FINISHED
               /\ ~px'.finpub[i][3]]_px

\* C36: the status of a timer becomes FINISHED only from RUNNING:
\* mark_timer_finished never changes a PAUSED timer to FINISHED.
C36_FinishedOnlyFromRunning ==
    [][\A id \in DOMAIN table \cap DOMAIN table' :
           (Seen(id, "status") # FINISHED /\ Was(table', id, "status") = FINISHED) =>
               Seen(id, "status") = RUNNING]_table

\* C37: the delay a retry helper sleeps is never greater than its cap, 0.8 s
\* in _execute_write_with_retry and 0.6 s in _execute_read_with_retry; the
\* first sleep is 0.05 s and 0.02 s.
C37_DelayCapped ==
    \A c \in Conns :
        retry[c].tries > 0 =>
            /\ ~Less(DelayCap(retry[c].helper), retry[c].slept)
            /\ retry[c].tries = 1 => retry[c].slept = FirstDelay(retry[c].helper)

\* C38: an add_item call that returned has added exactly one row of its own,
\* also when an attempt's commit failed with a transient lock error and the
\* INSERT was executed again on the same connection.
C38_OneRowPerAddItem ==
    \A c \in Conns :
        (pc[c] = "done" /\ result[c].err = "ok") =>
            Cardinality({r \in dbRows : r.by = c}) = 1

\* how often the watcher published a finished event for id, and how often it
\* invoked on_finished with it
WatcherEvents(id) ==
    Cardinality({i \in DOMAIN px.finpub : px.finpub[i] = <<"watcher", id>>})
WatcherCalls(id) == Cardinality({i \in DOMAIN px.fired : px.fired[i] = id})

\* C39: for each timer id the TimerWatcher publishes at most one finished
\* event and invokes on_finished at most once, however its wake-up, re-check
\* and status write interleave with the statements of pause_timer,
\* resume_timer and rm_timer on the caller's thread.
C39_WatcherFiresOnce ==
    \A id \in 1..MaxTimers : WatcherEvents(id) <= 1 /\ WatcherCalls(id) <= 1

\* the thread of timer id waits undisturbed: no update of the duration is
\* on its way to it
WaitsUndisturbed(id) ==
    /\ id \in DOMAIN threads
    /\ threads[id].pc = "blocked"
    /\ ~events[id]
    /\ id \notin updated
Exited(id) == id \in DOMAIN threads /\ threads[id].pc = "exited"

\* C40: after watch_all the callback of each registered timer is invoked
\* exactly once and its thread exits, also when update_timer and
\* notify_update are called while the thread waits, the wait then starting
\* again with the updated duration; and a repeated watch_all starts no second
\* thread for a timer that has one.
C40_EachCallbackOnce ==
    /\ [](\A id \in DOMAIN called :
              /\ called[id] <= 1
              /\ Exited(id) => called[id] = 1
              /\ WaitsUndisturbed(id) => threads[id].duration = timers[id])
    /\ [][\A id \in DOMAIN threads :
              /\ id \in DOMAIN threads'
              /\ threads'[id].pc = "get_timer" => threads[id].pc \in {"get_timer", "clear"}
         ]_watchVars
    /\ \A id \in WatchIds : (id \in DOMAIN threads) ~> (Exited(id) /\ called[id] = 1)
C40_Witness ==
    /\ Exited(0)
    /\ called[0] = 1
    /\ 1 \in DOMAIN threads
    /\ threads[1].pc = "clear"
    /\ threads[1].duration # timers[1]
    /\ 1 \notin updated
====
